---- MODULE Spec2Model ----
(***************************************************************************)
(* A model of the two integrators of src/src: the Gragg-Bulirsch-Stoer     *)
(* controller of integrator_bs.c and the shell recursion of                *)
(* integrator_mercurana.c.                                                 *)
(*                                                                         *)
(* Number representation (TLC has 32-bit integers only):                   *)
(*   - step sizes (dt, minStep, maxStep, optimalStep, dt_proposed) are     *)
(*     integers in units of 1e-8, products are rounded down (MulDiv) and   *)
(*     saturate at Huge;                                                   *)
(*   - tolerances are integers in units of 1e-6;                           *)
(*   - the scaled error is a pair <<m, e>> standing for m * 10^e, m in     *)
(*     0..9, and <<-1, 0>> stands for NaN;                                 *)
(*   - costPerTimeUnit[k] is the fraction <<costPerStep[k],                *)
(*     optimalStep[k]>>, compared exactly (<<c, 0>> is +inf).              *)
(* The derivatives callback of an ODE is user code: what the sub-step      *)
(* engine and the extrapolation make of it in one call (the stability      *)
(* verdict, the row values, the scaled error of each column) is drawn from *)
(* the record env.                                                         *)
(***************************************************************************)
EXTENDS Integers, Sequences, FiniteSets, TLC

VARIABLES
    ri_bs,    \* struct reb_simulation_integrator_bs, its ODE states included
    call,     \* the last call of reb_integrator_bs_step since the last reset: the
              \* struct at entry, dt, and the outcome (ret is 1 or 0 as returned,
              \* -2 when the call ended in exit(), -1 when there was no call)
    exited,   \* "no", or why the process called exit()
    ncalls,   \* number of reb_integrator_bs_step calls made so far
    r,        \* struct reb_simulation with its ri_mercurana, as MERCURANA uses it
    pending,  \* the operations reb_integrator_mercurana_part2 has still to
              \* run, innermost first: the continuation of its call stack
    fn        \* one evaluation of a function of the two files taken by itself:
              \* its arguments, how far it has run and what it has computed

bsvars == <<ri_bs, call, exited, ncalls>>
mvars == <<r, pending>>
vars == <<ri_bs, call, exited, ncalls, r, pending, fn>>

----------------------------------------------------------------------------
(* Bounds of the model *)

MaxCalls == 2     \* calls of reb_integrator_bs_step in one behaviour
MaxOde == 2       \* ODE states added with reb_integrator_bs_add_ode
MaxSteps == 2     \* calls of reb_integrator_mercurana_part2 in one behaviour
NParticles == 3   \* particles of the simulation

----------------------------------------------------------------------------
(* Arithmetic helpers *)

Huge == 2 * (10 ^ 9)

Abs(x) == IF x < 0 THEN -x ELSE x

MAX(a, b) == IF a > b THEN a ELSE b

MIN(a, b) == IF a < b THEN a ELSE b

\* floor(a * b / c) for a, b >= 0 and c > 0, without overflow, saturating at Huge
MulDiv(a, b, c) ==
    LET q == a \div c
        rest == a % c
    IN IF b > 0 /\ q >= Huge \div b THEN Huge
       ELSE MIN(Huge, q * b + (rest * b) \div c)

\* a/b < c/d for positive integers, by continued fractions (no products)
RECURSIVE FracLess(_, _, _, _)
FracLess(a, b, c, d) ==
    LET qa == a \div b
        qc == c \div d
        ra == a % b
        rc == c % d
    IN IF qa # qc THEN qa < qc
       ELSE IF rc = 0 THEN FALSE
       ELSE IF ra = 0 THEN TRUE
       ELSE FracLess(d, rc, b, ra)

NULL == <<>>

NaN == <<-1, 0>>

----------------------------------------------------------------------------
(* Constants of integrator_bs.c *)

maxOrder == 18
sequence_length == maxOrder \div 2
orderControl1 == <<8, 10>>
orderControl2 == <<9, 10>>
stabilityReduction == <<1, 2>>
maxIter == 2
maxChecks == 1

\* MAX(power / stepControl4, MIN(1 / power, stepControl2 / pow(error /
\* stepControl1, exp))) in 1/1000, rounded down, with exp = 1/(2k+1) and
\* power = pow(stepControl3, exp); one row per column k = 1..8, one entry
\* per error 0, 1, 2, 30, 7e4
FacTable ==
    << <<3684, 814, 646, 262,  67>>,
       <<2186, 862, 750, 436, 114>>,
       <<1748, 883, 800, 543, 179>>,
       <<1544, 896, 829, 614, 259>>,
       <<1427, 903, 848, 663, 327>>,
       <<1351, 909, 862, 700, 385>>,
       <<1297, 913, 872, 728, 434>>,
       <<1258, 916, 879, 750, 475>> >>

ErrIndex(error) ==
    CASE error = <<0, 0>> -> 1
      [] error = <<1, 0>> -> 2
      [] error = <<2, 0>> -> 3
      [] error = <<3, 1>> -> 4
      [] error = <<7, 4>> -> 5

fac(k, error) == FacTable[k][ErrIndex(error)]

\* comparisons of the scaled error m * 10^e
isnan(error) == error = NaN

ErrGtInt(error, R) ==
    /\ error[1] > 0
    /\ error[2] >= 0
    /\ (error[2] >= 6 \/ error[1] * (10 ^ error[2]) > R)

ErrGt1e25(error) ==
    error[1] > 0 /\ (error[2] > 25 \/ (error[2] = 25 /\ error[1] > 1))

\* a < f * b for costPerTimeUnit fractions a, b and a factor f = <<num, den>>
CostLess(a, f, b) ==
    IF (a[1] = 0 /\ a[2] = 0) \/ (b[1] = 0 /\ b[2] = 0) THEN FALSE
    ELSE IF a[2] = 0 THEN FALSE
    ELSE IF b[2] = 0 THEN TRUE
    ELSE IF b[1] = 0 THEN FALSE
    ELSE IF a[1] = 0 THEN TRUE
    ELSE FracLess(a[1] * f[2], f[1] * b[1], a[2], b[2])

----------------------------------------------------------------------------
(* allocate_sequence_arrays *)

sequence(k) == 4 * k + 2

RECURSIVE costPerStep(_)
costPerStep(k) == IF k = 0 THEN sequence(0) + 1 ELSE costPerStep(k - 1) + sequence(k)

Columns == 0 .. (sequence_length - 1)

allocate_sequence_arrays(ri) ==
    [ri EXCEPT
        !.sequence = [k \in Columns |-> sequence(k)],
        !.costPerStep = [k \in Columns |-> costPerStep(k)],
        !.coeff = [k \in Columns |-> <<1, sequence(k) * sequence(k)>>],
        !.costPerTimeUnit = [k \in Columns |-> IF k = 0 THEN <<0, 1>> ELSE <<0, 0>>],
        !.optimalStep = [k \in Columns |-> 0]]

----------------------------------------------------------------------------
(* ODE states *)

\* what one call of reb_integrator_bs_step gets from the user's derivatives
\* callbacks: the column (0 or 1, -1 for none) at which the stability check
\* of tryStep fails, the value of the rows, and the scaled error of column
\* k: 1e26 at column blow, else pre before column conv and post from it on
PreErrors == {<<2, 0>>, <<3, 1>>, <<7, 4>>}
PostErrors == {<<0, 0>>, <<1, 0>>}
RowVals == {10}
ConvSpread == 2
Envs(target) ==
    [unstable : {-1}, blow : {0}, row : RowVals,
     conv : {c \in (target - ConvSpread) .. (target + ConvSpread) : c >= 1},
     pre : PreErrors, post : PostErrors]
    \cup [unstable : {-1}, blow : {1, 3}, row : RowVals, conv : {sequence_length},
          pre : {<<2, 0>>}, post : {<<0, 0>>}]
    \cup [unstable : {0, 1}, blow : {0}, row : RowVals, conv : {1},
          pre : {<<2, 0>>}, post : {<<0, 0>>}]

ErrAt(env, k) ==
    IF k = env.blow THEN <<1, 26>>
    ELSE IF k < env.conv THEN env.pre ELSE env.post

\* The arrays of a state are passed by pointer: an argument "y" or "y1" names
\* the array of the state a callee reads, and scale_args records the two
\* arrays the last scale computation was given.

\* a user getscale callback: scale from the larger of its two arguments
user_getscale(state, y1, y2) ==
    [state EXCEPT
        !.scale = [i \in 1 .. state.length |->
                      1 + MAX(Abs(state[y1][i]), Abs(state[y2][i]))],
        !.scale_args = <<y1, y2>>]

reb_integrator_bs_default_scale(state, y1, y2, absTol, relTol) ==
    [state EXCEPT
        !.scale = [i \in 1 .. state.length |->
                      absTol + relTol * MAX(Abs(state[y1][i]), Abs(state[y2][i]))],
        !.scale_args = <<y1, y2>>]

\* initial scaling of one state
InitialScale(ri, state) ==
    IF state.getscale
    THEN user_getscale(state, "y", "y")
    ELSE reb_integrator_bs_default_scale(state, "y", "y",
             ri.scalRelativeTolerance, ri.scalAbsoluteTolerance)

\* scaling of one state after the extrapolation of a column k > 0
ColumnScale(ri, state) ==
    IF state.getscale
    THEN user_getscale(state, "y", "y1")
    ELSE reb_integrator_bs_default_scale(state, "y", "y",
             ri.scalRelativeTolerance, ri.scalAbsoluteTolerance)

\* initial order selection: floor(0.5 - 0.6 * log10(MAX(1.0e-10, tol))) is at
\* least j iff tol <= 10^((0.5 - j) / 0.6); the thresholds in units of 1e-6,
\* rounded down (a tolerance of 0 stands for MAX(1.0e-10, 0) = 1e-10)
OrderThreshold == <<146779, 3162, 68, 1>>

FloorOrder(tol) ==
    IF tol = 0 THEN 6
    ELSE Cardinality({j \in 1 .. 4 : tol <= OrderThreshold[j]})

InitialOrder(ri) ==
    IF ri.targetIter = 0
    THEN [ri EXCEPT !.targetIter =
             MAX(1, MIN(sequence_length - 2, FloorOrder(ri.scalRelativeTolerance)))]
    ELSE ri

\* a sub-step engine that integrates in place, writing the row into y
tryStepInPlace(states, k, method, env) ==
    [s \in 1 .. Len(states) |->
        [states[s] EXCEPT !.y = [i \in 1 .. states[s].length |-> env.row]]]

\* tryStep: 0 when the stability check of the midpoint method fails (only at
\* sub-step j = 1 <= maxChecks of a column k < maxIter), else 1; y1 of every
\* state is overwritten with the row
tryStepOk(k, method, env) ==
    ~(method = 1 /\ 1 <= maxChecks /\ k < maxIter /\ env.unstable = k)

tryStep(states, k, method, env) ==
    [s \in 1 .. Len(states) |->
        [states[s] EXCEPT !.y1 = [i \in 1 .. states[s].length |-> env.row]]]

\* what extrapolate leaves in y1 at column k, as the controller sees it: a
\* value that goes with the rows of the environment (extrapolate itself is
\* translated further down, in exact arithmetic)
extrapolateEnv(state, k, env) ==
    [state EXCEPT !.y1 = [i \in 1 .. state.length |-> env.row + k]]

RECURSIVE CombinedLength(_)
CombinedLength(states) ==
    IF states = <<>> THEN 0
    ELSE Head(states).length + CombinedLength(Tail(states))

\* error = sqrt(max (C[j] / scale[j])^2 / combined_length): NaN without components
ErrorEstimate(states, k, env) ==
    IF CombinedLength(states) = 0 THEN NaN ELSE ErrAt(env, k)

----------------------------------------------------------------------------
(* reb_integrator_bs_step: the loop over the columns of the tableau.  The   *)
(* locals of the function are the record loc: ri (the struct as modified so *)
(* far), k, dt, reject, loop, error, cause (why the step was rejected) and  *)
(* fatal (why exit() was called).  idx is not a local: it collects every    *)
(* index the call has used to subscript sequence, coeff, costPerStep,       *)
(* costPerTimeUnit, optimalStep or the tableau D.                           *)

\* a step size estimate that leaves out the factor of the error
RecordOptimalStepUnscaled(ri, k, dt, error) ==
    [ri EXCEPT !.optimalStep[k] = Abs(dt),
               !.costPerTimeUnit[k] = <<ri.costPerStep[k], Abs(dt)>>]

\* optimal step size and cost of column k
RecordOptimalStep(ri, k, dt, error) ==
    LET step == MulDiv(Abs(dt), fac(k, error), 1000)
    IN [ri EXCEPT !.optimalStep[k] = step,
                  !.costPerTimeUnit[k] = <<ri.costPerStep[k], step>>]

\* the indices of costPerTimeUnit the order control reads, and that of the
\* optimalStep taken after it
LowerOrderIdx(ri, low) ==
    (IF ri.targetIter > 1 THEN {ri.targetIter - 1, ri.targetIter} ELSE {})
    \cup {low.targetIter}

\* an order control that never lowers the order
LowerOrderNever(ri) == ri

\* the order is lowered by one when the lower column is cheap enough
LowerOrder(ri) ==
    IF /\ ri.targetIter > 1
       /\ CostLess(ri.costPerTimeUnit[ri.targetIter - 1], orderControl1,
                   ri.costPerTimeUnit[ri.targetIter])
    THEN [ri EXCEPT !.targetIter = ri.targetIter - 1]
    ELSE ri

\* a check one column before the target that firstOrLastStep enables as well
OneBeforeTargetOnFirstOrLast(loc) ==
    IF /\ loc.ri.firstOrLastStep
       /\ ~(loc.ri.targetIter > 1 /\ ~loc.ri.previousRejected)
       /\ ~ErrGtInt(loc.error, 1)
    THEN [loc EXCEPT !.loop = FALSE]
    ELSE loc

\* case -1: one column before the target
OneBeforeTarget(loc) ==
    LET ri == loc.ri
        ratio == (ri.sequence[ri.targetIter] * ri.sequence[ri.targetIter + 1])
                     \div (ri.sequence[0] * ri.sequence[0])
        low == LowerOrder([ri EXCEPT !.targetIter = loc.k])
        read == {ri.targetIter, ri.targetIter + 1, 0}
    IN IF ri.targetIter > 1 /\ ~ri.previousRejected
       THEN IF ~ErrGtInt(loc.error, 1)
            THEN [loc EXCEPT !.loop = FALSE]
            ELSE IF ErrGtInt(loc.error, ratio * ratio)
                 THEN [loc EXCEPT !.reject = TRUE, !.loop = FALSE, !.ri = low,
                                  !.dt = low.optimalStep[low.targetIter],
                                  !.cause = "order",
                                  !.idx = @ \cup read \cup
                                      LowerOrderIdx([ri EXCEPT !.targetIter = loc.k],
                                                    low)]
                 ELSE [loc EXCEPT !.idx = @ \cup read]
       ELSE loc

\* case 0: exactly on the target column
OnTarget(loc) ==
    LET ri == loc.ri
        ratio == ri.sequence[loc.k + 1] \div ri.sequence[0]
        low == LowerOrder(ri)
        read == {loc.k + 1, 0}
    IN IF ~ErrGtInt(loc.error, 1)
       THEN [loc EXCEPT !.loop = FALSE]
       ELSE IF ErrGtInt(loc.error, ratio * ratio)
            THEN [loc EXCEPT !.reject = TRUE, !.loop = FALSE, !.ri = low,
                             !.dt = low.optimalStep[low.targetIter],
                             !.cause = "order",
                             !.idx = @ \cup read \cup LowerOrderIdx(ri, low)]
            ELSE [loc EXCEPT !.idx = @ \cup read]

\* a convergence check that stops one column past the target whatever the error
OnePastTargetAccepts(loc) == [loc EXCEPT !.loop = FALSE]

\* a convergence check that goes on to the next column when the error one
\* column past the target is above 1
OnePastTargetLooping(loc) ==
    IF ErrGtInt(loc.error, 1) THEN loc ELSE [loc EXCEPT !.loop = FALSE]

\* case 1: one column past the target
OnePastTarget(loc) ==
    LET low == LowerOrder(loc.ri)
    IN IF ErrGtInt(loc.error, 1)
       THEN [loc EXCEPT !.reject = TRUE, !.loop = FALSE, !.ri = low,
                        !.dt = low.optimalStep[low.targetIter],
                        !.cause = "order",
                        !.idx = @ \cup LowerOrderIdx(loc.ri, low)]
       ELSE [loc EXCEPT !.loop = FALSE]

\* default: any other column
OtherColumn(loc) ==
    IF loc.ri.firstOrLastStep /\ ~ErrGtInt(loc.error, 1)
    THEN [loc EXCEPT !.loop = FALSE]
    ELSE loc

\* switch (k - targetIter)
CheckConvergence(loc) ==
    CASE loc.k - loc.ri.targetIter = -1 -> OneBeforeTarget(loc)
      [] loc.k - loc.ri.targetIter = 0 -> OnTarget(loc)
      [] loc.k - loc.ri.targetIter = 1 -> OnePastTarget(loc)
      [] OTHER -> OtherColumn(loc)

\* the scale of every state after the extrapolation of column k
ExtrapolateAll(ri, k, env) ==
    [s \in 1 .. Len(ri.states) |->
        ColumnScale(ri, extrapolateEnv(ri.states[s], k, env))]

\* one pass of the loop body: ++k, tryStep, extrapolation, error, convergence;
\* tryStep is given sequence[k], the seeding writes D[k], and extrapolate
\* reads coeff[0 .. k] and works on D[0 .. k]
Column(loc, env) ==
    LET k == loc.k + 1
        tried == [loc EXCEPT !.k = k, !.idx = @ \cup {k},
                     !.ri.states = tryStep(loc.ri.states, k, loc.ri.method, env)]
        scaled == [tried EXCEPT !.idx = @ \cup (0 .. k),
                      !.ri.states = ExtrapolateAll(tried.ri, k, env)]
        error == ErrorEstimate(scaled.ri.states, k, env)
        halved == MulDiv(Abs(loc.dt), stabilityReduction[1], stabilityReduction[2])
    IN IF ~tryStepOk(k, loc.ri.method, env)
       THEN [tried EXCEPT !.dt = halved, !.reject = TRUE, !.loop = FALSE,
                          !.cause = "stability"]
       ELSE IF k = 0 THEN tried
       ELSE IF isnan(error)
            THEN [scaled EXCEPT !.error = error, !.loop = FALSE, !.fatal = "nan"]
       ELSE IF ErrGt1e25(error)
            THEN [scaled EXCEPT !.error = error, !.dt = halved, !.reject = TRUE,
                                !.loop = FALSE, !.cause = "error"]
       ELSE CheckConvergence(
                [scaled EXCEPT !.error = error,
                               !.ri = RecordOptimalStep(scaled.ri, k, loc.dt, error)])

\* for (int loop = 1; loop; ): a pass with k beyond the last element of the
\* arrays would read outside them, which ends the call here as "bounds"
RECURSIVE ColumnLoop(_, _)
ColumnLoop(loc, env) ==
    IF ~loc.loop THEN loc
    ELSE IF loc.k + 1 >= sequence_length
    THEN [loc EXCEPT !.loop = FALSE, !.fatal = "bounds"]
    ELSE ColumnLoop(Column(loc, env), env)

----------------------------------------------------------------------------
(* reb_integrator_bs_step: after the loop *)

\* the accepted solution is committed by swapping y and y1 of every state
SwapArrays(states) ==
    [s \in 1 .. Len(states) |->
        [states[s] EXCEPT !.y = states[s].y1, !.y1 = states[s].y,
                          !.swaps = states[s].swaps + 1]]

\* the order selection without the clamps to sequence_length - 2
OptimalIterUnclamped(ri, k) ==
    IF k = 1
    THEN IF ri.previousRejected THEN 1 ELSE 2
    ELSE IF k <= ri.targetIter
    THEN IF CostLess(ri.costPerTimeUnit[k - 1], orderControl1, ri.costPerTimeUnit[k])
         THEN k - 1
         ELSE IF CostLess(ri.costPerTimeUnit[k], orderControl2,
                          ri.costPerTimeUnit[k - 1])
              THEN k + 1
              ELSE k
    ELSE LET o == IF /\ k > 2
                     /\ CostLess(ri.costPerTimeUnit[k - 2], orderControl1,
                                 ri.costPerTimeUnit[k - 1])
                  THEN k - 2 ELSE k - 1
         IN IF CostLess(ri.costPerTimeUnit[k], orderControl2, ri.costPerTimeUnit[o])
            THEN k
            ELSE o

OptimalIter(ri, k) ==
    IF k = 1
    THEN IF ri.previousRejected THEN 1 ELSE 2
    ELSE IF k <= ri.targetIter
    THEN IF CostLess(ri.costPerTimeUnit[k - 1], orderControl1, ri.costPerTimeUnit[k])
         THEN k - 1
         ELSE IF CostLess(ri.costPerTimeUnit[k], orderControl2,
                          ri.costPerTimeUnit[k - 1])
              THEN MIN(k + 1, sequence_length - 2)
              ELSE k
    ELSE LET o == IF /\ k > 2
                     /\ CostLess(ri.costPerTimeUnit[k - 2], orderControl1,
                                 ri.costPerTimeUnit[k - 1])
                  THEN k - 2 ELSE k - 1
         IN IF CostLess(ri.costPerTimeUnit[k], orderControl2, ri.costPerTimeUnit[o])
            THEN MIN(k, sequence_length - 2)
            ELSE o

\* the new order after an accepted step
AcceptedOrder(ri, k, optimalIter) ==
    IF ri.previousRejected THEN MIN(optimalIter, k) ELSE optimalIter

\* the new step size after an accepted step
AcceptedStep(ri, k, dt, optimalIter) ==
    IF ri.previousRejected
    THEN MIN(Abs(dt), ri.optimalStep[AcceptedOrder(ri, k, optimalIter)])
    ELSE IF optimalIter <= k
    THEN ri.optimalStep[optimalIter]
    ELSE IF /\ k < ri.targetIter
            /\ CostLess(ri.costPerTimeUnit[k], orderControl2,
                        ri.costPerTimeUnit[k - 1])
         THEN MulDiv(ri.optimalStep[k], ri.costPerStep[optimalIter + 1],
                     ri.costPerStep[k])
         ELSE MulDiv(ri.optimalStep[k], ri.costPerStep[optimalIter],
                     ri.costPerStep[k])

\* the indices of costPerTimeUnit the order selection reads
OptimalIterIdx(ri, k) ==
    IF k = 1 THEN {}
    ELSE IF k <= ri.targetIter THEN {k - 1, k}
    ELSE (IF k > 2 THEN {k - 2} ELSE {}) \cup {k - 1, k}

\* the indices of optimalStep, costPerTimeUnit and costPerStep the step size
\* control reads
AcceptedStepIdx(ri, k, optimalIter) ==
    IF ri.previousRejected THEN {AcceptedOrder(ri, k, optimalIter)}
    ELSE IF optimalIter <= k THEN {optimalIter}
    ELSE IF /\ k < ri.targetIter
            /\ CostLess(ri.costPerTimeUnit[k], orderControl2,
                        ri.costPerTimeUnit[k - 1])
         THEN {k, k - 1, optimalIter + 1}
         ELSE (IF k < ri.targetIter THEN {k, k - 1} ELSE {}) \cup {k, optimalIter}

\* if (! reject) { swap; order and step size control }
Accept(loc) ==
    LET o == OptimalIter(loc.ri, loc.k)
    IN IF loc.reject THEN loc
       ELSE [loc EXCEPT
                !.ri.states = SwapArrays(loc.ri.states),
                !.ri.targetIter = AcceptedOrder(loc.ri, loc.k, o),
                !.dt = AcceptedStep(loc.ri, loc.k, loc.dt, o),
                !.idx = @ \cup OptimalIterIdx(loc.ri, loc.k)
                          \cup AcceptedStepIdx(loc.ri, loc.k, o)]

\* a check against maxStep alone
StepFatalMaxOnly(ri, dt) ==
    IF dt > ri.maxStep /\ ri.maxStep > 0 THEN "max" ELSE "no"

\* the checks against minStep and maxStep, both ending in exit(0)
StepFatal(ri, dt) ==
    IF dt < ri.minStep THEN "min"
    ELSE IF dt > ri.maxStep /\ ri.maxStep > 0 THEN "max"
    ELSE "no"

\* a return that clears firstOrLastStep whether the step was accepted or not
PublishClearingFirstOrLast(ri, dt, forward, reject) ==
    [ri EXCEPT !.dt_proposed = IF forward THEN dt ELSE -dt,
               !.previousRejected = reject,
               !.firstOrLastStep = FALSE]

\* dt_proposed, previousRejected and firstOrLastStep at the return
Publish(ri, dt, forward, reject) ==
    [ri EXCEPT !.dt_proposed = IF forward THEN dt ELSE -dt,
               !.previousRejected = reject,
               !.firstOrLastStep = IF reject THEN ri.firstOrLastStep ELSE FALSE]

\* the state at entry, with the ghost counter of swaps cleared
AtEntry(ri) ==
    [ri EXCEPT !.states =
        [s \in 1 .. Len(ri.states) |-> [ri.states[s] EXCEPT !.swaps = 0]]]

\* a step function that publishes before it checks minStep and maxStep
StepPublishingFirst(ri0, dt, env) ==
    LET ordered == InitialOrder(AtEntry(ri0))
        scaled == [ordered EXCEPT !.states =
                      [s \in 1 .. Len(ordered.states) |->
                          InitialScale(ordered, ordered.states[s])]]
        forward == dt >= 0
        looped == ColumnLoop([ri |-> scaled, k |-> -1, dt |-> dt, reject |-> FALSE,
                              loop |-> TRUE, error |-> NaN, cause |-> "none",
                              fatal |-> "no", idx |-> {}], env)
        accepted == Accept(looped)
        absdt == Abs(accepted.dt)
    IN IF looped.fatal # "no"
       THEN looped
       ELSE [accepted EXCEPT
                !.ri = Publish(accepted.ri, absdt, forward, accepted.reject),
                !.fatal = StepFatal(accepted.ri, absdt),
                !.dt = absdt]

\* the whole function: the struct at the return (or at the exit), and the
\* locals k, error, reject at that point
reb_integrator_bs_step(ri0, dt, env) ==
    LET ordered == InitialOrder(AtEntry(ri0))
        scaled == [ordered EXCEPT !.states =
                      [s \in 1 .. Len(ordered.states) |->
                          InitialScale(ordered, ordered.states[s])]]
        forward == dt >= 0
        looped == ColumnLoop([ri |-> scaled, k |-> -1, dt |-> dt, reject |-> FALSE,
                              loop |-> TRUE, error |-> NaN, cause |-> "none",
                              fatal |-> "no", idx |-> {}], env)
        accepted == Accept(looped)
        absdt == Abs(accepted.dt)
        fatal == IF looped.fatal # "no" THEN looped.fatal
                 ELSE StepFatal(accepted.ri, absdt)
    IN IF looped.fatal # "no"
       THEN [looped EXCEPT !.fatal = fatal]
       ELSE IF fatal # "no"
       THEN [accepted EXCEPT !.fatal = fatal, !.dt = absdt]
       ELSE [accepted EXCEPT
                !.ri = Publish(accepted.ri, absdt, forward, accepted.reject),
                !.dt = absdt]

----------------------------------------------------------------------------
(* The other operations on the struct *)

\* a reset that frees the arrays and restores the settings but keeps the
\* flag previousRejected
ResetKeepingRejected(ri) ==
    [ri EXCEPT
        !.states = <<>>,
        !.states_ptr = IF ri.N # 0 THEN "freed" ELSE ri.states_ptr,
        !.N = 0,
        !.allocatedN = IF ri.N # 0 THEN 0 ELSE ri.allocatedN,
        !.sequence = NULL,
        !.coeff = NULL,
        !.costPerStep = NULL,
        !.costPerTimeUnit = NULL,
        !.optimalStep = NULL,
        !.scalAbsoluteTolerance = 10,
        !.scalRelativeTolerance = 10,
        !.maxStep = 10 ^ 9,
        !.minStep = 1,
        !.firstOrLastStep = TRUE,
        !.method = 1]

\* the default settings, and the arrays freed and set to NULL; states is
\* freed but the pointer is not cleared, targetIter and dt_proposed are kept
reb_integrator_bs_reset_struct(ri) ==
    [ri EXCEPT
        !.states = <<>>,
        !.states_ptr = IF ri.N # 0 THEN "freed" ELSE ri.states_ptr,
        !.N = 0,
        !.allocatedN = IF ri.N # 0 THEN 0 ELSE ri.allocatedN,
        !.sequence = NULL,
        !.coeff = NULL,
        !.costPerStep = NULL,
        !.costPerTimeUnit = NULL,
        !.optimalStep = NULL,
        !.scalAbsoluteTolerance = 10,
        !.scalRelativeTolerance = 10,
        !.maxStep = 10 ^ 9,
        !.minStep = 1,
        !.firstOrLastStep = TRUE,
        !.previousRejected = FALSE,
        !.method = 1]

\* a zeroed struct after reb_integrator_bs_reset_struct; nbody_state is the
\* pointer to the N-body state as its place in states, 0 for NULL
InitialStruct ==
    reb_integrator_bs_reset_struct(
        [states |-> <<>>, states_ptr |-> "NULL", N |-> 0, allocatedN |-> 0,
         sequence |-> NULL, coeff |-> NULL, costPerStep |-> NULL,
         costPerTimeUnit |-> NULL, optimalStep |-> NULL,
         scalAbsoluteTolerance |-> 0, scalRelativeTolerance |-> 0,
         maxStep |-> 0, minStep |-> 0, firstOrLastStep |-> FALSE,
         previousRejected |-> FALSE, method |-> 0, targetIter |-> 0,
         dt_proposed |-> 0, nbody_state |-> 0])

\* the y the user writes into the s-th state after adding it
YInit(s) ==
    CASE s = 1 -> <<-2, 0, 0, 0, 1, 0>>
      [] s = 2 -> <<3, 1, 0, 0, 0, -1>>
      [] OTHER -> <<2, 0, 0, 0, 0, 1>>

\* a new state of the given length; its buffers are not initialised (0 here)
reb_integrator_bs_add_ode(ri, length) ==
    [ri EXCEPT
        !.allocatedN = IF ri.allocatedN <= ri.N THEN ri.allocatedN + 1
                       ELSE ri.allocatedN,
        !.states_ptr = "live",
        !.N = ri.N + 1,
        !.states = Append(ri.states,
            [length |-> length,
             y |-> [i \in 1 .. length |-> 0],
             y1 |-> [i \in 1 .. length |-> 0],
             scale |-> [i \in 1 .. length |-> 0],
             getscale |-> FALSE,
             scale_args |-> <<"y", "y">>, swaps |-> 0])]

NoCall ==
    [ret |-> -1, k |-> -1, error |-> NaN, cause |-> "none", dt |-> 0,
     dt_out |-> 0, idx |-> {}, entry |-> InitialStruct]

\* the settings a user chooses before integrating: tolerances (1e-5 and
\* 1e-5, 1e-5 and 1e-3, 0.2 and 0, 1e-3 and 1e-5), minStep and maxStep (1e-8
\* and 10, 0.01 and none, 1e-6 and 0.2) and the method
Setups ==
    { [absTol |-> 10, relTol |-> 10, minStep |-> 1, maxStep |-> 10 ^ 9, method |-> 0],
      [absTol |-> 10, relTol |-> 1000, minStep |-> 10 ^ 6, maxStep |-> 0, method |-> 1],
      [absTol |-> 200000, relTol |-> 0, minStep |-> 100, maxStep |-> 2 * (10 ^ 7),
       method |-> 1],
      [absTol |-> 1000, relTol |-> 10, minStep |-> 1, maxStep |-> 10 ^ 9, method |-> 0],
      [absTol |-> 10, relTol |-> 200000, minStep |-> 100, maxStep |-> 0, method |-> 1] }
DtVals == {10 ^ 7, -(10 ^ 7), 3 * (10 ^ 8), 150}

----------------------------------------------------------------------------
(* integrator_mercurana.c: the shells.  Arrays are functions on 0 .. n-1 as  *)
(* in the source, and an element that was allocated but never written is    *)
(* Indeterminate.  Positions, velocities and critical radii are not part of *)
(* the model: what reb_mercurana_predict_rmin2 makes of them in one         *)
(* encounter prediction is the set enc of the pairs of particles whose      *)
(* predicted rmin2 is below the square of the sum of their dcrit.  The      *)
(* operator splitting schemes phi0 and phi1 are REB_EOS_LF, the setting of  *)
(* reb_integrator_mercurana_reset.                                          *)

Indeterminate == -1

Particles == 0 .. (NParticles - 1)

Pairs == {p \in SUBSET Particles : Cardinality(p) = 2}

reb_integrator_mercurana_reset(sim) ==
    [sim EXCEPT !.ri_mercurana =
        [allocatedN |-> 0, map |-> NULL, inshell |-> NULL, shellN |-> NULL,
         shellN_active |-> NULL, phi0 |-> "LF", phi1 |-> "LF", n |-> 10,
         whsplitting |-> TRUE, safe_mode |-> TRUE, Nmaxshells |-> 10,
         Nmaxshellused |-> 1, recalculate_dcrit_this_timestep |-> FALSE,
         is_synchronized |-> TRUE]]

\* a simulation of NParticles particles at t = 0 (t in units of dt);
\* synced_on is not a field of the struct: it holds the shell buffers the
\* last run of the post-processor in reb_integrator_mercurana_synchronize
\* was given; particles is the array of the particles, six numbers each
\* (x, y, z, vx, vy, vz); fault is not a field either: it records an access
\* of reb_integrator_bs_part2 outside a buffer or through a freed pointer
InitialSim ==
    reb_integrator_mercurana_reset(
        [N |-> NParticles, N_active |-> -1, t |-> 0, ri_mercurana |-> <<>>,
         synced_on |-> NULL, dt |-> 0, dt_last_done |-> 0, particles |-> <<>>,
         fault |-> "none"])

\* the shell buffers of the integrator: what the drift and interaction steps
\* of a processor read
Buffers(sim) ==
    [map |-> sim.ri_mercurana.map, inshell |-> sim.ri_mercurana.inshell,
     shellN |-> sim.ri_mercurana.shellN,
     shellN_active |-> sim.ri_mercurana.shellN_active]

\* the particle indices listed in map[shell][0 .. shellN[shell])
ShellMembers(rim, shell) ==
    {rim.map[shell][i] : i \in 0 .. (rim.shellN[shell] - 1)}

\* an encounter prediction that stores the slot i of map[shell] in the
\* sub-shell instead of the particle index map[shell][i]
EncounterPredictStoringSlots(sim, shell, enc) ==
    LET rim == sim.ri_mercurana
        N == rim.shellN[shell]
        N_active == rim.shellN_active[shell]
        map == rim.map[shell]
        close(i, j) == {map[i], map[j]} \in enc
        found == {i \in 0 .. (N_active - 1) :
                     \E j \in 0 .. (N - 1) : j # i /\ close(i, j)}
                 \cup {i \in N_active .. (N - 1) :
                          \E j \in 0 .. (N_active - 1) : close(i, j)}
        slot(i) == Cardinality({j \in found : j < i})
        inner == {map[i] : i \in found}
        marked == [sim EXCEPT !.ri_mercurana.inshell =
                      [p \in DOMAIN @ |->
                          IF p \in ShellMembers(rim, shell) THEN 1 ELSE @[p]]]
    IN IF shell = 0 /\ rim.whsplitting
       THEN [sim EXCEPT
                !.ri_mercurana.inshell =
                    [p \in DOMAIN @ |->
                        IF p \in ShellMembers(rim, shell) THEN 0 ELSE @[p]],
                !.ri_mercurana.map[shell + 1] =
                    [x \in DOMAIN @ |-> IF x < N THEN map[x] ELSE @[x]],
                !.ri_mercurana.shellN[shell + 1] = N,
                !.ri_mercurana.shellN_active[shell + 1] = N_active]
       ELSE IF shell + 1 >= rim.Nmaxshells
       THEN marked
       ELSE [marked EXCEPT
                !.ri_mercurana.inshell =
                    [p \in DOMAIN @ |-> IF p \in inner THEN 0 ELSE @[p]],
                !.ri_mercurana.map[shell + 1] =
                    [x \in DOMAIN @ |->
                        IF x < Cardinality(found)
                        THEN CHOOSE i \in found : slot(i) = x
                        ELSE @[x]],
                !.ri_mercurana.shellN[shell + 1] = Cardinality(found),
                !.ri_mercurana.shellN_active[shell + 1] =
                    Cardinality({i \in found : i < N_active})]

\* an encounter prediction that sets shellN_active[shell + 1] after its
\* second loop: the passive particles added are counted as active
EncounterPredictCountingPassive(sim, shell, enc) ==
    LET rim == sim.ri_mercurana
        N == rim.shellN[shell]
        N_active == rim.shellN_active[shell]
        map == rim.map[shell]
        close(i, j) == {map[i], map[j]} \in enc
        found == {i \in 0 .. (N_active - 1) :
                     \E j \in 0 .. (N - 1) : j # i /\ close(i, j)}
                 \cup {i \in N_active .. (N - 1) :
                          \E j \in 0 .. (N_active - 1) : close(i, j)}
        slot(i) == Cardinality({j \in found : j < i})
        inner == {map[i] : i \in found}
        marked == [sim EXCEPT !.ri_mercurana.inshell =
                      [p \in DOMAIN @ |->
                          IF p \in ShellMembers(rim, shell) THEN 1 ELSE @[p]]]
    IN IF shell = 0 /\ rim.whsplitting
       THEN [sim EXCEPT
                !.ri_mercurana.inshell =
                    [p \in DOMAIN @ |->
                        IF p \in ShellMembers(rim, shell) THEN 0 ELSE @[p]],
                !.ri_mercurana.map[shell + 1] =
                    [x \in DOMAIN @ |-> IF x < N THEN map[x] ELSE @[x]],
                !.ri_mercurana.shellN[shell + 1] = N,
                !.ri_mercurana.shellN_active[shell + 1] = N_active]
       ELSE IF shell + 1 >= rim.Nmaxshells
       THEN marked
       ELSE [marked EXCEPT
                !.ri_mercurana.inshell =
                    [p \in DOMAIN @ |-> IF p \in inner THEN 0 ELSE @[p]],
                !.ri_mercurana.map[shell + 1] =
                    [x \in DOMAIN @ |->
                        IF x < Cardinality(found)
                        THEN map[CHOOSE i \in found : slot(i) = x]
                        ELSE @[x]],
                !.ri_mercurana.shellN[shell + 1] = Cardinality(found),
                !.ri_mercurana.shellN_active[shell + 1] =
                    Cardinality(found)]

\* an encounter prediction without its second loop: passive particles are
\* never added to the sub-shell
EncounterPredictActiveOnly(sim, shell, enc) ==
    LET rim == sim.ri_mercurana
        N == rim.shellN[shell]
        N_active == rim.shellN_active[shell]
        map == rim.map[shell]
        close(i, j) == {map[i], map[j]} \in enc
        found == {i \in 0 .. (N_active - 1) :
                     \E j \in 0 .. (N - 1) : j # i /\ close(i, j)}
        slot(i) == Cardinality({j \in found : j < i})
        inner == {map[i] : i \in found}
        marked == [sim EXCEPT !.ri_mercurana.inshell =
                      [p \in DOMAIN @ |->
                          IF p \in ShellMembers(rim, shell) THEN 1 ELSE @[p]]]
    IN IF shell = 0 /\ rim.whsplitting
       THEN [sim EXCEPT
                !.ri_mercurana.inshell =
                    [p \in DOMAIN @ |->
                        IF p \in ShellMembers(rim, shell) THEN 0 ELSE @[p]],
                !.ri_mercurana.map[shell + 1] =
                    [x \in DOMAIN @ |-> IF x < N THEN map[x] ELSE @[x]],
                !.ri_mercurana.shellN[shell + 1] = N,
                !.ri_mercurana.shellN_active[shell + 1] = N_active]
       ELSE IF shell + 1 >= rim.Nmaxshells
       THEN marked
       ELSE [marked EXCEPT
                !.ri_mercurana.inshell =
                    [p \in DOMAIN @ |-> IF p \in inner THEN 0 ELSE @[p]],
                !.ri_mercurana.map[shell + 1] =
                    [x \in DOMAIN @ |->
                        IF x < Cardinality(found)
                        THEN map[CHOOSE i \in found : slot(i) = x]
                        ELSE @[x]],
                !.ri_mercurana.shellN[shell + 1] = Cardinality(found),
                !.ri_mercurana.shellN_active[shell + 1] =
                    Cardinality(found)]

\* reb_mercurana_encounter_predict: found holds the slots i of map[shell]
\* whose particle is added to shell + 1, first the active ones (an encounter
\* with any other particle of the shell) and then the passive ones (an
\* encounter with an active particle), each in the order of map[shell]
reb_mercurana_encounter_predict(sim, shell, enc) ==
    LET rim == sim.ri_mercurana
        N == rim.shellN[shell]
        N_active == rim.shellN_active[shell]
        map == rim.map[shell]
        close(i, j) == {map[i], map[j]} \in enc
        found == {i \in 0 .. (N_active - 1) :
                     \E j \in 0 .. (N - 1) : j # i /\ close(i, j)}
                 \cup {i \in N_active .. (N - 1) :
                          \E j \in 0 .. (N_active - 1) : close(i, j)}
        slot(i) == Cardinality({j \in found : j < i})
        inner == {map[i] : i \in found}
        marked == [sim EXCEPT !.ri_mercurana.inshell =
                      [p \in DOMAIN @ |->
                          IF p \in ShellMembers(rim, shell) THEN 1 ELSE @[p]]]
    IN IF shell = 0 /\ rim.whsplitting
       THEN [sim EXCEPT
                !.ri_mercurana.inshell =
                    [p \in DOMAIN @ |->
                        IF p \in ShellMembers(rim, shell) THEN 0 ELSE @[p]],
                !.ri_mercurana.map[shell + 1] =
                    [x \in DOMAIN @ |-> IF x < N THEN map[x] ELSE @[x]],
                !.ri_mercurana.shellN[shell + 1] = N,
                !.ri_mercurana.shellN_active[shell + 1] = N_active]
       ELSE IF shell + 1 >= rim.Nmaxshells
       THEN marked
       ELSE [marked EXCEPT
                !.ri_mercurana.inshell =
                    [p \in DOMAIN @ |-> IF p \in inner THEN 0 ELSE @[p]],
                !.ri_mercurana.map[shell + 1] =
                    [x \in DOMAIN @ |->
                        IF x < Cardinality(found)
                        THEN map[CHOOSE i \in found : slot(i) = x]
                        ELSE @[x]],
                !.ri_mercurana.shellN[shell + 1] = Cardinality(found),
                !.ri_mercurana.shellN_active[shell + 1] =
                    Cardinality({i \in found : i < N_active})]

\* the pairs the prediction of a shell examines: those of its members
PairsOf(members) == {p \in Pairs : p \subseteq members}

\* the calls a scheme issues, in order
Drift(shell) == [op |-> "drift", shell |-> shell]

Interaction(shell) == [op |-> "interaction", shell |-> shell]

\* case REB_EOS_LF of reb_integrator_mercurana_step
reb_integrator_mercurana_step(shell, type) ==
    CASE type = "LF" -> <<Drift(shell), Interaction(shell), Drift(shell)>>

\* A coefficient of a scheme is not a number here but its place in the
\* tables of the schemes: entry index of a table, the sign it is taken with
\* and the power of dt it multiplies; the literal 0. has sign 0.
Coef(table, index, sign, power) ==
    [table |-> table, index |-> index, sign |-> sign, power |-> power]

Zero == Coef("0", 0, 0, 0)

\* the calls of the two processors carry their coefficients
DriftCall(shell, a) == [op |-> "drift", shell |-> shell, a |-> a]

InteractionCall(shell, y, v) ==
    [op |-> "interaction", shell |-> shell, y |-> y, v |-> v]

\* for (i = 0; i < n; i++) { first(i); second(i); }
LoopUp(n, first(_), second(_)) ==
    [x \in 1 .. (2 * n) |->
        IF x % 2 = 1 THEN first((x - 1) \div 2) ELSE second((x - 2) \div 2)]

\* for (i = n - 1; i >= 0; i--) { first(i); second(i); }
LoopDown(n, first(_), second(_)) ==
    [x \in 1 .. (2 * n) |->
        IF x % 2 = 1 THEN first(n - 1 - ((x - 1) \div 2))
        ELSE second(n - 1 - ((x - 2) \div 2))]

\* a post-processor that runs its loops upwards, as the pre-processor does
PostprocessorLoopingUp(shell, type) ==
    CASE type = "PMLF6" ->
            LoopUp(6,
                LAMBDA i : InteractionCall(shell, Coef("reb_eos_pmlf6_y", i, -1, 1),
                                           Coef("reb_eos_pmlf6_v", i, -1, 3)),
                LAMBDA i : DriftCall(shell, Coef("reb_eos_pmlf6_z", i, -1, 1)))
      [] type = "PMLF4" ->
            LoopUp(3,
                LAMBDA i : DriftCall(shell, Coef("reb_eos_pmlf4_z", i, -1, 1)),
                LAMBDA i : InteractionCall(shell, Coef("reb_eos_pmlf4_y", i, -1, 1),
                                           Zero))
      [] type = "PLF7_6_4" ->
            LoopUp(6,
                LAMBDA i : InteractionCall(shell,
                               Coef("reb_eos_plf7_6_4_y", i, -1, 1), Zero),
                LAMBDA i : DriftCall(shell, Coef("reb_eos_plf7_6_4_z", i, -1, 1)))
      [] OTHER -> <<>>

\* the calls reb_integrator_mercurana_preprocessor issues, in order; every
\* scheme but PMLF6, PMLF4 and PLF7_6_4 is the default case
reb_integrator_mercurana_preprocessor(shell, type) ==
    CASE type = "PMLF6" ->
            LoopUp(6,
                LAMBDA i : DriftCall(shell, Coef("reb_eos_pmlf6_z", i, 1, 1)),
                LAMBDA i : InteractionCall(shell, Coef("reb_eos_pmlf6_y", i, 1, 1),
                                           Coef("reb_eos_pmlf6_v", i, 1, 3)))
      [] type = "PMLF4" ->
            LoopUp(3,
                LAMBDA i : InteractionCall(shell, Coef("reb_eos_pmlf4_y", i, 1, 1),
                                           Zero),
                LAMBDA i : DriftCall(shell, Coef("reb_eos_pmlf4_z", i, 1, 1)))
      [] type = "PLF7_6_4" ->
            LoopUp(6,
                LAMBDA i : DriftCall(shell, Coef("reb_eos_plf7_6_4_z", i, 1, 1)),
                LAMBDA i : InteractionCall(shell,
                               Coef("reb_eos_plf7_6_4_y", i, 1, 1), Zero))
      [] OTHER -> <<>>

\* the calls reb_integrator_mercurana_postprocessor issues, in order
reb_integrator_mercurana_postprocessor(shell, type) ==
    CASE type = "PMLF6" ->
            LoopDown(6,
                LAMBDA i : InteractionCall(shell, Coef("reb_eos_pmlf6_y", i, -1, 1),
                                           Coef("reb_eos_pmlf6_v", i, -1, 3)),
                LAMBDA i : DriftCall(shell, Coef("reb_eos_pmlf6_z", i, -1, 1)))
      [] type = "PMLF4" ->
            LoopDown(3,
                LAMBDA i : DriftCall(shell, Coef("reb_eos_pmlf4_z", i, -1, 1)),
                LAMBDA i : InteractionCall(shell, Coef("reb_eos_pmlf4_y", i, -1, 1),
                                           Zero))
      [] type = "PLF7_6_4" ->
            LoopDown(6,
                LAMBDA i : InteractionCall(shell,
                               Coef("reb_eos_plf7_6_4_y", i, -1, 1), Zero),
                LAMBDA i : DriftCall(shell, Coef("reb_eos_plf7_6_4_z", i, -1, 1)))
      [] OTHER -> <<>>

RECURSIVE Repeat(_, _)
Repeat(ops, n) == IF n = 0 THEN <<>> ELSE ops \o Repeat(ops, n - 1)

\* reb_integrator_mercurana_drift_step up to the recursion: the prediction
\* (the drift itself moves positions only) and Nmaxshellused
reb_integrator_mercurana_drift_step(sim, shell, enc) ==
    LET predicted == reb_mercurana_encounter_predict(sim, shell, enc)
        rim == predicted.ri_mercurana
    IN IF shell + 1 < rim.Nmaxshells /\ rim.shellN[shell + 1] > 0
       THEN [predicted EXCEPT
                !.ri_mercurana.Nmaxshellused = MAX(@, shell + 2)]
       ELSE predicted

\* the calls of the recursion of reb_integrator_mercurana_drift_step
SubShellCalls(sim, shell) ==
    LET rim == sim.ri_mercurana
    IN IF shell + 1 < rim.Nmaxshells /\ rim.shellN[shell + 1] > 0
       THEN reb_integrator_mercurana_preprocessor(shell + 1, rim.phi1)
            \o Repeat(reb_integrator_mercurana_step(shell + 1, rim.phi1), rim.n)
            \o reb_integrator_mercurana_postprocessor(shell + 1, rim.phi1)
       ELSE <<>>

\* a synchronize that runs the post-processor whatever is_synchronized is
SynchronizeRunsAlways(sim) == TRUE

\* if (rim->is_synchronized == 0) of reb_integrator_mercurana_synchronize:
\* the post-processor of shell 0 is invoked
SynchronizeRuns(sim) == ~sim.ri_mercurana.is_synchronized

\* reb_integrator_mercurana_synchronize; the post-processor of REB_EOS_LF
\* issues no call
reb_integrator_mercurana_synchronize(sim) ==
    IF SynchronizeRuns(sim)
    THEN [sim EXCEPT !.ri_mercurana.is_synchronized = TRUE,
                     !.synced_on = Buffers(sim)]
    ELSE sim

\* reb_integrator_mercurana_part1: the buffers are reallocated when the
\* particle number has grown, and the shells are cleared when dcrit is
\* recalculated
reb_integrator_mercurana_part1(sim) ==
    LET rim == sim.ri_mercurana
        shells == 0 .. (rim.Nmaxshells - 1)
        slots == 0 .. (sim.N - 1)
        grown ==
            IF rim.allocatedN < sim.N
            THEN [sim EXCEPT
                    !.ri_mercurana.map =
                        [s \in shells |-> [i \in slots |-> Indeterminate]],
                    !.ri_mercurana.inshell =
                        [i \in slots |->
                            IF i \in DOMAIN @ THEN @[i] ELSE Indeterminate],
                    !.ri_mercurana.shellN =
                        [s \in shells |->
                            IF s \in DOMAIN @ THEN @[s] ELSE Indeterminate],
                    !.ri_mercurana.shellN_active =
                        [s \in shells |->
                            IF s \in DOMAIN @ THEN @[s] ELSE Indeterminate],
                    !.ri_mercurana.allocatedN = sim.N,
                    !.ri_mercurana.recalculate_dcrit_this_timestep = TRUE]
            ELSE sim
        synced == reb_integrator_mercurana_synchronize(grown)
    IN IF grown.ri_mercurana.recalculate_dcrit_this_timestep
       THEN [synced EXCEPT
                !.ri_mercurana.recalculate_dcrit_this_timestep = FALSE,
                !.ri_mercurana.shellN = [s \in shells |-> 0],
                !.ri_mercurana.shellN_active = [s \in shells |-> 0],
                !.ri_mercurana.map[0] = [i \in slots |-> i]]
       ELSE grown

\* reb_integrator_mercurana_part2 up to its first call
Part2Entry(sim) ==
    [sim EXCEPT
        !.ri_mercurana.shellN[0] = sim.N,
        !.ri_mercurana.shellN_active[0] =
            IF sim.N_active = -1 THEN sim.N ELSE sim.N_active]

\* the calls of reb_integrator_mercurana_part2
Part2Calls(sim) ==
    LET rim == sim.ri_mercurana
    IN (IF rim.is_synchronized
        THEN reb_integrator_mercurana_preprocessor(0, rim.phi0)
        ELSE <<>>)
       \o reb_integrator_mercurana_step(0, rim.phi0)

\* reb_integrator_mercurana_part2 after its last call
Part2Exit(sim) ==
    LET stepped == [sim EXCEPT !.ri_mercurana.is_synchronized = FALSE]
        synced == IF sim.ri_mercurana.safe_mode
                  THEN reb_integrator_mercurana_synchronize(stepped)
                  ELSE stepped
    IN [synced EXCEPT !.t = @ + 1]

\* what a user sets after the reset: Nmaxshells, whsplitting, n, safe_mode,
\* and N_active and the number of particles of the simulation
MercuranaSetups ==
    { [Nmaxshells |-> 4, whsplitting |-> TRUE, n |-> 1, safe_mode |-> TRUE,
       N_active |-> -1, N |-> NParticles],
      [Nmaxshells |-> 3, whsplitting |-> FALSE, n |-> 1, safe_mode |-> FALSE,
       N_active |-> 2, N |-> NParticles],
      [Nmaxshells |-> 2, whsplitting |-> TRUE, n |-> 2, safe_mode |-> TRUE,
       N_active |-> 2, N |-> NParticles],
      [Nmaxshells |-> 3, whsplitting |-> FALSE, n |-> 2, safe_mode |-> TRUE,
       N_active |-> -1, N |-> NParticles],
      [Nmaxshells |-> 3, whsplitting |-> TRUE, n |-> 1, safe_mode |-> FALSE,
       N_active |-> -1, N |-> NParticles - 1] }

\* no function is being evaluated by itself
NoFn == [op |-> "none"]

----------------------------------------------------------------------------
(* The state machine of the BS integrator *)

Init ==
    /\ ri_bs = InitialStruct
    /\ call = NoCall
    /\ exited = "no"
    /\ ncalls = 0
    /\ r = InitialSim
    /\ pending = <<>>
    /\ fn = NoFn

\* reb_integrator_bs_reset
Reset ==
    /\ exited = "no"
    /\ ri_bs' = reb_integrator_bs_reset_struct(ri_bs)
    /\ call' = NoCall
    /\ UNCHANGED <<exited, ncalls>>
    /\ UNCHANGED mvars
    /\ UNCHANGED fn

\* the user sets the public parameters
Configure ==
    /\ exited = "no"
    /\ ri_bs.sequence = NULL
    /\ ncalls = 0
    /\ \E u \in Setups :
          ri_bs' = [ri_bs EXCEPT !.scalAbsoluteTolerance = u.absTol,
                                 !.scalRelativeTolerance = u.relTol,
                                 !.minStep = u.minStep, !.maxStep = u.maxStep,
                                 !.method = u.method]
    /\ UNCHANGED <<call, exited, ncalls>>
    /\ UNCHANGED mvars
    /\ UNCHANGED fn

\* the user adds an ODE, with or without a getscale callback, and sets its y;
\* after a reset ri_bs->states is a freed pointer and the realloc is undefined
AddOde ==
    /\ exited = "no"
    /\ ri_bs.N < MaxOde
    /\ ncalls = 0
    /\ \/ /\ \E g \in (IF ri_bs.N = 0 THEN {FALSE} ELSE BOOLEAN) :
                LET s == ri_bs.N + 1
                    added == reb_integrator_bs_add_ode(ri_bs, Len(YInit(s)))
                IN ri_bs' = [added EXCEPT !.states[s].y = YInit(s),
                                          !.states[s].getscale = g]
          /\ UNCHANGED exited
       \/ /\ ri_bs.states_ptr = "freed"
          /\ exited' = "crash"
          /\ UNCHANGED ri_bs
    /\ UNCHANGED <<call, ncalls>>
    /\ UNCHANGED mvars
    /\ UNCHANGED fn

\* the driver announces the last step
SetLastStep ==
    /\ exited = "no"
    /\ ~ri_bs.firstOrLastStep
    /\ ri_bs' = [ri_bs EXCEPT !.firstOrLastStep = TRUE]
    /\ UNCHANGED <<call, exited, ncalls>>
    /\ UNCHANGED mvars
    /\ UNCHANGED fn

AllocateSequenceArrays ==
    /\ exited = "no"
    /\ ri_bs.sequence = NULL
    /\ ri_bs' = allocate_sequence_arrays(ri_bs)
    /\ UNCHANGED <<call, exited, ncalls>>
    /\ UNCHANGED mvars
    /\ UNCHANGED fn

\* one call reb_integrator_bs_step(ri_bs, t, dt): the first with the dt of the
\* user, the later ones with the dt_proposed of the call before
BsStep ==
    /\ exited = "no"
    /\ ncalls < MaxCalls
    /\ ri_bs.sequence # NULL
    /\ \E dt \in (IF ri_bs.dt_proposed = 0 THEN DtVals ELSE {ri_bs.dt_proposed}),
          env \in Envs(InitialOrder(ri_bs).targetIter) :
          \E res \in {reb_integrator_bs_step(ri_bs, dt, env)} :
             /\ ri_bs' = res.ri
             /\ exited' = res.fatal
             /\ call' = [ret |-> IF res.fatal # "no" THEN -2
                                 ELSE IF res.reject THEN 0 ELSE 1,
                         k |-> res.k, error |-> res.error, cause |-> res.cause,
                         dt |-> dt, dt_out |-> res.dt, idx |-> res.idx,
                         entry |-> ri_bs]
    /\ ncalls' = ncalls + 1
    /\ UNCHANGED mvars
    /\ UNCHANGED fn

Next ==
    \/ Reset
    \/ Configure
    \/ AddOde
    \/ SetLastStep
    \/ AllocateSequenceArrays
    \/ BsStep

Spec == Init /\ [][Next]_vars

----------------------------------------------------------------------------
(* The state machine of MERCURANA: reb_integrator_mercurana_part1 and        *)
(* reb_integrator_mercurana_part2 are called in turn, once per time step.   *)
(* The calls part2 issues run one at a time; pending holds those still to   *)
(* come, and ends with the return of part2.                                 *)

Part2Call == [op |-> "part2", shell |-> 0]

Part2Return == [op |-> "return", shell |-> 0]

\* the user configures the integrator before the first step
MercuranaSetup ==
    /\ pending = <<>>
    /\ r.t = 0
    /\ r.ri_mercurana.allocatedN = 0
    /\ r.ri_mercurana.Nmaxshells = 10
    /\ \E u \in MercuranaSetups :
          r' = [r EXCEPT !.N = u.N,
                         !.N_active = u.N_active,
                         !.ri_mercurana.Nmaxshells = u.Nmaxshells,
                         !.ri_mercurana.whsplitting = u.whsplitting,
                         !.ri_mercurana.n = u.n,
                         !.ri_mercurana.safe_mode = u.safe_mode]
    /\ UNCHANGED pending
    /\ UNCHANGED bsvars
    /\ UNCHANGED fn

MercuranaPart1 ==
    /\ pending = <<>>
    /\ r.t < MaxSteps
    /\ r.ri_mercurana.Nmaxshells # 10
    /\ r' = reb_integrator_mercurana_part1(r)
    /\ pending' = <<Part2Call>>
    /\ UNCHANGED bsvars
    /\ UNCHANGED fn

MercuranaPart2 ==
    /\ pending # <<>>
    /\ Head(pending) = Part2Call
    /\ r' = Part2Entry(r)
    /\ pending' = Part2Calls(r) \o <<Part2Return>>
    /\ UNCHANGED bsvars
    /\ UNCHANGED fn

\* one call of reb_integrator_mercurana_drift_step, up to its recursion
DriftStep ==
    /\ pending # <<>>
    /\ Head(pending).op = "drift"
    /\ \E enc \in SUBSET PairsOf(ShellMembers(r.ri_mercurana, Head(pending).shell)) :
          /\ r' = reb_integrator_mercurana_drift_step(r, Head(pending).shell, enc)
          /\ pending' = SubShellCalls(r', Head(pending).shell) \o Tail(pending)
    /\ UNCHANGED bsvars
    /\ UNCHANGED fn

\* one call of reb_integrator_mercurana_interaction_step: velocities only
InteractionStep ==
    /\ pending # <<>>
    /\ Head(pending).op = "interaction"
    /\ pending' = Tail(pending)
    /\ UNCHANGED r
    /\ UNCHANGED bsvars
    /\ UNCHANGED fn

MercuranaPart2Return ==
    /\ pending # <<>>
    /\ Head(pending) = Part2Return
    /\ r' = Part2Exit(r)
    /\ pending' = Tail(pending)
    /\ UNCHANGED bsvars
    /\ UNCHANGED fn

\* the user calls reb_integrator_mercurana_synchronize between two steps
MercuranaSynchronize ==
    /\ pending = <<>>
    /\ ~r.ri_mercurana.is_synchronized
    /\ r' = reb_integrator_mercurana_synchronize(r)
    /\ UNCHANGED pending
    /\ UNCHANGED bsvars
    /\ UNCHANGED fn

\* the user adds a particle between two steps
MercuranaAddParticle ==
    /\ pending = <<>>
    /\ r.ri_mercurana.Nmaxshells # 10
    /\ r.N < NParticles
    /\ r' = [r EXCEPT !.N = @ + 1]
    /\ UNCHANGED pending
    /\ UNCHANGED bsvars
    /\ UNCHANGED fn

\* the user asks for new critical radii between two steps
MercuranaRecalculate ==
    /\ pending = <<>>
    /\ r.t > 0
    /\ ~r.ri_mercurana.recalculate_dcrit_this_timestep
    /\ r' = [r EXCEPT !.ri_mercurana.recalculate_dcrit_this_timestep = TRUE]
    /\ UNCHANGED pending
    /\ UNCHANGED bsvars
    /\ UNCHANGED fn

NextMercurana ==
    \/ MercuranaSetup
    \/ MercuranaAddParticle
    \/ MercuranaRecalculate
    \/ MercuranaPart1
    \/ MercuranaPart2
    \/ DriftStep
    \/ InteractionStep
    \/ MercuranaPart2Return
    \/ MercuranaSynchronize

SpecMercurana == Init /\ [][NextMercurana]_vars

----------------------------------------------------------------------------
(* Properties of reb_integrator_bs_step and reb_integrator_bs_reset_struct *)

Returned == call.ret \in {0, 1}

States == 1 .. Len(ri_bs.states)

\* C1: whenever reb_integrator_bs_step returns, accepted or rejected,
\* minStep <= |dt_proposed|, and |dt_proposed| <= maxStep if maxStep > 0
PublishedStepWithinBounds ==
    Returned =>
        /\ ri_bs.minStep <= Abs(ri_bs.dt_proposed)
        /\ ri_bs.maxStep > 0 => Abs(ri_bs.dt_proposed) <= ri_bs.maxStep

\* a backward step returned under a minStep of 1e-6 and a maxStep of 0.2
PublishedBackwardStep ==
    /\ Returned
    /\ ri_bs.dt_proposed < 0
    /\ ri_bs.minStep = 100
    /\ ri_bs.maxStep = 2 * (10 ^ 7)

\* C2: an accepted step has a scaled error <= 1 at its last column k, and
\* is never accepted at column 0, where there is no error estimate
AcceptedErrorAtMostOne ==
    call.ret = 1 =>
        /\ call.k >= 1
        /\ ~isnan(call.error)
        /\ ~ErrGtInt(call.error, 1)

\* a step accepted with an error of exactly 1
AcceptedWithErrorOne == call.ret = 1 /\ call.error = <<1, 0>>

\* C3: after every call that returns, from targetIter = 0 or any value in
\* 1 .. sequence_length - 2, 1 <= targetIter <= sequence_length - 2
TargetIterInRange ==
    Returned =>
        /\ call.entry.targetIter \in 0 .. (sequence_length - 2)
        /\ ri_bs.targetIter \in 1 .. (sequence_length - 2)

\* a step accepted on the target column sequence_length - 2 whose cost asks
\* for one more column, and the order stays at sequence_length - 2
OrderClampedAtTop ==
    /\ call.ret = 1
    /\ call.entry.targetIter = sequence_length - 2
    /\ call.k = sequence_length - 2
    /\ CostLess(ri_bs.costPerTimeUnit[call.k], orderControl2,
                ri_bs.costPerTimeUnit[call.k - 1])
    /\ ri_bs.targetIter = sequence_length - 2

\* C4: within one call y of every state changes only by the swap of y and
\* y1: after a rejected step y is what it was at entry and nothing was
\* swapped, after an accepted step every state was swapped exactly once (y1
\* holds the y of entry)
YChangedOnlyBySwap ==
    Returned =>
        /\ Len(ri_bs.states) = Len(call.entry.states)
        /\ \A s \in States :
              IF call.ret = 0
              THEN /\ ri_bs.states[s].y = call.entry.states[s].y
                   /\ ri_bs.states[s].swaps = 0
              ELSE /\ ri_bs.states[s].y1 = call.entry.states[s].y
                   /\ ri_bs.states[s].swaps = 1

\* a rejected step followed by an accepted step of two states
AcceptedTwoStatesAfterReject ==
    /\ call.ret = 1
    /\ call.entry.previousRejected
    /\ Len(ri_bs.states) = 2
    /\ \A s \in States : ri_bs.states[s].y # call.entry.states[s].y

DefaultScaleFormula ==
    call.ret \in {0, 1, -2} =>
        \A s \in States :
            ~ri_bs.states[s].getscale =>
                \A i \in 1 .. ri_bs.states[s].length :
                    ri_bs.states[s].scale[i] =
                        call.entry.scalAbsoluteTolerance
                        + call.entry.scalRelativeTolerance
                          * Abs(call.entry.states[s].y[i])

\* C7: after the extrapolation of a column k > 0 the scale of every state,
\* with getscale or without, is recomputed from the extrapolated y1
ScaleRecomputedFromY1 ==
    (call.ret \in {0, 1, -2} /\ call.k >= 1 /\ call.cause # "stability") =>
        \A s \in States : ri_bs.states[s].scale_args[2] = "y1"

\* C8: a step size below minStep or above a positive maxStep ends the call
\* in exit(): nothing is returned, dt_proposed, previousRejected and
\* firstOrLastStep are as at entry, and an accepted step has been swapped
FatalStepNotPublished ==
    (/\ call.ret # -1
     /\ exited # "nan"
     /\ \/ call.dt_out < call.entry.minStep
        \/ call.entry.maxStep > 0 /\ call.dt_out > call.entry.maxStep) =>
        /\ exited = (IF call.dt_out < call.entry.minStep THEN "min" ELSE "max")
        /\ call.ret = -2
        /\ ri_bs.dt_proposed = call.entry.dt_proposed
        /\ ri_bs.previousRejected = call.entry.previousRejected
        /\ ri_bs.firstOrLastStep = call.entry.firstOrLastStep
        /\ call.cause = "none" =>
              \A s \in States : /\ ri_bs.states[s].swaps = 1
                                /\ ri_bs.states[s].y1 = call.entry.states[s].y

\* an accepted second step that grows above maxStep and ends in exit()
AcceptedStepAboveMaxStep ==
    /\ exited = "max"
    /\ call.cause = "none"
    /\ call.entry.dt_proposed # 0
    /\ ri_bs.states # <<>>

\* C9: after reb_integrator_bs_reset_struct, from any state: method = 1,
\* both tolerances 1e-5, maxStep = 10, minStep = 1e-8, firstOrLastStep = 1,
\* previousRejected = 0, no ODE states, and sequence, coeff, costPerStep,
\* costPerTimeUnit and optimalStep are NULL
ResetDefaults(ri) ==
    /\ ri.method = 1
    /\ ri.scalAbsoluteTolerance = 10
    /\ ri.scalRelativeTolerance = 10
    /\ ri.maxStep = 10 ^ 9
    /\ ri.minStep = 1
    /\ ri.firstOrLastStep
    /\ ~ri.previousRejected
    /\ ri.N = 0
    /\ ri.states = <<>>
    /\ ri.sequence = NULL
    /\ ri.coeff = NULL
    /\ ri.costPerStep = NULL
    /\ ri.costPerTimeUnit = NULL
    /\ ri.optimalStep = NULL

ResetRestoresDefaults == [][Reset => ResetDefaults(ri_bs')]_vars

\* the struct just after a reset that followed a call of the step function
ResetAfterStep ==
    /\ ri_bs.sequence = NULL
    /\ ri_bs.states_ptr = "freed"
    /\ ri_bs.targetIter > 0
    /\ ri_bs.dt_proposed # 0
    /\ ncalls > 0
    /\ call = NoCall
    /\ ResetDefaults(ri_bs)

\* C15: within one call the column index k never exceeds targetIter + 1,
\* hence sequence_length - 1: there are at most sequence_length tryStep
\* attempts, and sequence, coeff, optimalStep, costPerStep, costPerTimeUnit
\* and the tableau D are never indexed outside 0 .. sequence_length - 1
ColumnsBounded ==
    call.ret # -1 =>
        /\ call.k <= InitialOrder(call.entry).targetIter + 1
        /\ call.k <= sequence_length - 1
        /\ call.k + 1 <= sequence_length
        /\ call.idx \subseteq Columns
        /\ exited # "bounds"

\* a call that went on to the last column of the tableau, sequence_length - 1,
\* one past the target sequence_length - 2, and read sequence there
LastColumnReached ==
    /\ Returned
    /\ call.entry.targetIter = sequence_length - 2
    /\ call.k = sequence_length - 1
    /\ (sequence_length - 1) \in call.idx

\* C17: a step is accepted only at a column k with 1 <= k <= targetIter + 1;
\* at a column k < targetIter - 1 only when firstOrLastStep is set; at
\* k = targetIter - 1 only when targetIter > 1 and previousRejected is clear
AcceptedColumn ==
    LET target == InitialOrder(call.entry).targetIter
    IN call.ret = 1 =>
          /\ 1 <= call.k
          /\ call.k <= target + 1
          /\ call.k < target - 1 => call.entry.firstOrLastStep
          /\ call.k = target - 1 =>
                 target > 1 /\ ~call.entry.previousRejected

\* a step accepted one column before the target while firstOrLastStep is set,
\* and a step accepted two columns or more before the target
AcceptedBeforeTarget ==
    LET target == InitialOrder(call.entry).targetIter
    IN /\ call.ret = 1
       /\ call.entry.firstOrLastStep
       /\ call.k = target - 1

AcceptedWellBeforeTarget ==
    /\ call.ret = 1
    /\ call.k < InitialOrder(call.entry).targetIter - 1

\* a call rejected for non-convergence one column before the target
RejectedBeforeTarget ==
    /\ call.ret = 0
    /\ call.cause = "order"
    /\ call.k = InitialOrder(call.entry).targetIter - 1

\* costPerTimeUnit[a] < orderControl1 * costPerTimeUnit[b] at the return
Criterion(a, b) ==
    CostLess(ri_bs.costPerTimeUnit[a], orderControl1, ri_bs.costPerTimeUnit[b])

RejectedBeforeTargetCriterionSet ==
    /\ RejectedBeforeTarget
    /\ call.k > 1
    /\ Criterion(call.k - 1, call.k)
    /\ ri_bs.targetIter = InitialOrder(call.entry).targetIter - 2

\* C19: after every returning call of reb_integrator_bs_step previousRejected
\* is 1 iff the call returned 0; firstOrLastStep is cleared by every accepted
\* call and left unchanged by every rejected call
FlagsAtReturn ==
    [][(ncalls' # ncalls /\ call'.ret \in {0, 1}) =>
          /\ ri_bs'.previousRejected = (call'.ret = 0)
          /\ call'.ret = 1 => ~ri_bs'.firstOrLastStep
          /\ call'.ret = 0 => ri_bs'.firstOrLastStep = ri_bs.firstOrLastStep]_vars

\* a rejected call that has left firstOrLastStep set, after an accepted call
\* had cleared previousRejected
RejectedKeepingFirstOrLast ==
    /\ call.ret = 0
    /\ ncalls > 1
    /\ ~call.entry.previousRejected
    /\ call.entry.firstOrLastStep
    /\ ri_bs.firstOrLastStep
    /\ ri_bs.previousRejected

----------------------------------------------------------------------------
(* One macro step retried until it is accepted: reb_integrator_bs_part2     *)
(* calls reb_integrator_bs_step with r->dt and sets r->dt = dt_proposed     *)
(* whatever the call returned, so that the driver's next call retries a     *)
(* rejected step with the proposed step size.                               *)

\* settings under which a retried step meets minStep and maxStep: tolerances
\* 1e-5 and 1e-3 (target column 2) or 1e-5 and 1e-5 (target column 3),
\* minStep 0.01, maxStep 0.1, both methods
RetrySetups ==
    { [absTol |-> 10, relTol |-> 1000, minStep |-> 10 ^ 6, maxStep |-> 10 ^ 7,
       method |-> 1],
      [absTol |-> 10, relTol |-> 10, minStep |-> 10 ^ 6, maxStep |-> 10 ^ 7,
       method |-> 0] }

\* the first step size of the driver
RetryDt == 10 ^ 7

\* the struct after the user has set the parameters and added one ODE, and
\* the arrays of the sequence have been allocated
Prepared(u) ==
    LET set == [InitialStruct EXCEPT !.scalAbsoluteTolerance = u.absTol,
                                     !.scalRelativeTolerance = u.relTol,
                                     !.minStep = u.minStep, !.maxStep = u.maxStep,
                                     !.method = u.method]
        added == reb_integrator_bs_add_ode(set, Len(YInit(1)))
    IN allocate_sequence_arrays([added EXCEPT !.states[1].y = YInit(1)])

\* what the derivatives may give to a retried call: the error of a column
\* need not fall with the column
RetryEnvs(target) ==
    [unstable : {-1, 0}, blow : {0, 1}, row : RowVals,
     conv : 1 .. (target + 1),
     pre : {<<0, 0>>, <<2, 0>>, <<7, 4>>}, post : {<<0, 0>>, <<7, 4>>}]

InitRetry ==
    /\ ri_bs \in {Prepared(u) : u \in RetrySetups}
    /\ call = NoCall
    /\ exited = "no"
    /\ ncalls = 0
    /\ r = InitialSim
    /\ pending = <<>>
    /\ fn = NoFn

\* the driver's call of reb_integrator_bs_step: the first, or the retry of a
\* rejected step with dt = dt_proposed
RetryStep ==
    /\ exited = "no"
    /\ call.ret \in {-1, 0}
    /\ \E env \in RetryEnvs(InitialOrder(ri_bs).targetIter) :
          \E dt \in {IF call.ret = -1 THEN RetryDt ELSE ri_bs.dt_proposed} :
             \E res \in {reb_integrator_bs_step(ri_bs, dt, env)} :
                /\ ri_bs' = res.ri
                /\ exited' = res.fatal
                /\ call' = [ret |-> IF res.fatal # "no" THEN -2
                                    ELSE IF res.reject THEN 0 ELSE 1,
                            k |-> res.k, error |-> res.error, cause |-> res.cause,
                            dt |-> dt, dt_out |-> res.dt, idx |-> res.idx,
                            entry |-> ri_bs]
    /\ ncalls' = ncalls + 1
    /\ UNCHANGED mvars
    /\ UNCHANGED fn

NextRetry == RetryStep

\* the driver's call seen from the driver: it happens when the step is not
\* accepted yet and the program has not ended, and it is one more call
Retried ==
    /\ exited = "no"
    /\ call.ret \in {-1, 0}
    /\ ncalls' = ncalls + 1

\* the driver goes on calling as long as the step is not accepted
SpecRetry == InitRetry /\ [][NextRetry]_vars /\ WF_ncalls(Retried)

\* a rejected call has proposed a smaller step or lowered the order
RejectedCallMakesProgress ==
    call.ret = 0 =>
        \/ Abs(ri_bs.dt_proposed) < Abs(call.dt)
        \/ ri_bs.targetIter < InitialOrder(call.entry).targetIter

\* C16: every rejected call makes progress, |dt_proposed| < |dt| or targetIter
\* lower than at entry, and a run of rejections retried with dt_proposed ends
\* in an accepted step or in the termination for a step below minStep
RejectionsEndAcceptedOrMinStep ==
    /\ []RejectedCallMakesProgress
    /\ (call.ret = 0) ~> (call.ret = 1 \/ exited = "min")

\* C16, as the code has it: every rejected call makes progress, and a run of
\* rejections ends in an accepted step or in one of the terminations of the
\* step function (step below minStep, step above maxStep, error not a number)
RejectionsEnd ==
    /\ []RejectedCallMakesProgress
    /\ (call.ret = 0) ~> (call.ret = 1 \/ exited \in {"min", "max", "nan"})

\* a rejected call after a rejected call that lowered the order and proposed
\* a larger step than the one it was given
RejectedWithLargerStep ==
    /\ call.ret = 0
    /\ call.entry.previousRejected
    /\ ri_bs.targetIter < InitialOrder(call.entry).targetIter
    /\ Abs(ri_bs.dt_proposed) > Abs(call.dt)

----------------------------------------------------------------------------
(* Properties of the shells of MERCURANA *)

AfterPart2 == pending = <<>> /\ r.t > 0

SubShells == 1 .. (r.ri_mercurana.Nmaxshells - 1)

\* C10 as stated: after reb_integrator_mercurana_part2 every particle listed
\* in map[s][0 .. shellN[s]) is listed in map[s-1][0 .. shellN[s-1]), for
\* every shell s > 0, shells left over from earlier encounters included
ShellsNested ==
    AfterPart2 =>
        \A s \in SubShells :
            ShellMembers(r.ri_mercurana, s) \subseteq ShellMembers(r.ri_mercurana, s - 1)

\* C10 as the code has it: after reb_integrator_mercurana_part2 every
\* particle listed in map[s][0 .. shellN[s]) is listed in
\* map[s-1][0 .. shellN[s-1]), for every shell s > 0 whose parent shell s-1
\* is not empty
ShellsNestedBelowNonEmpty ==
    AfterPart2 =>
        \A s \in SubShells :
            r.ri_mercurana.shellN[s - 1] > 0 =>
                ShellMembers(r.ri_mercurana, s) \subseteq ShellMembers(r.ri_mercurana, s - 1)

\* after the second step two particles are in shell 2, a proper part of shell
\* 1, and shell 3 under them is empty
TwoShellsDeepAfterPart2 ==
    /\ AfterPart2
    /\ r.t = 2
    /\ r.ri_mercurana.Nmaxshells = 4
    /\ r.ri_mercurana.shellN[1] = 3
    /\ r.ri_mercurana.shellN[2] = 2
    /\ r.ri_mercurana.shellN[3] = 0

\* a call of reb_integrator_mercurana_part1 that recalculates dcrit while the
\* post-processor is outstanding
Part1Recalculates ==
    /\ MercuranaPart1
    /\ ~r.ri_mercurana.is_synchronized
    /\ \/ r.ri_mercurana.allocatedN < r.N
       \/ r.ri_mercurana.recalculate_dcrit_this_timestep

\* C12: when reb_integrator_mercurana_part1 recalculates dcrit while
\* is_synchronized = 0, also because the particle number has grown, the
\* post-processor of synchronize runs before any shell buffer is freed,
\* reallocated or overwritten: it runs on the buffers of the entry of part1
SynchronizedBeforeBuffersChange ==
    [][Part1Recalculates =>
          /\ r'.ri_mercurana.is_synchronized
          /\ r'.synced_on = Buffers(r)]_vars

\* the same for the recalculation the user asked for, the particle number
\* being what the buffers were allocated for
SynchronizedBeforeDcritRecalculated ==
    [][(Part1Recalculates /\ r.ri_mercurana.allocatedN >= r.N) =>
          /\ r'.ri_mercurana.is_synchronized
          /\ r'.synced_on = Buffers(r)]_vars

----------------------------------------------------------------------------
(* reb_integrator_mercurana_interaction_step: the weight Lsum of one pair.  *)
(* Distances and critical radii are integers, weights are in 1/1000.        *)

MaxShells == 4    \* largest Nmaxshells of the weights
MaxDist == 16     \* distances of a pair run over 0, 5, .., 5 * MaxDist

\* f(y) / (f(y) + f(1 - y)) with f(x) = exp(-1 / x), in 1/1000, at
\* y = 0, 1/4, 1/2, 3/4, 1
LTable == <<0, 65, 500, 935, 1000>>

\* reb_integrator_mercurana_L_infinity, y rounded down to a quarter
reb_integrator_mercurana_L_infinity(d, ri, ro) ==
    IF d < ri THEN 0
    ELSE IF d > ro THEN 1000
    ELSE LTable[((4 * (d - ri)) \div (ro - ri)) + 1]

\* dcrit[s][mi] + dcrit[s][mj] as reb_integrator_mercurana_part1 sets it for
\* n = 1: dt_shell halves from one shell to the next and dcrit goes with
\* dt_shell^(2/3), a factor of 0.63 (5/8 here)
dcritsum(s, base) == (base * (5 ^ s)) \div (8 ^ s)

\* Lsum of the pair whose first particle is in slot i of map[shell], at
\* distance d, in the two force loops and the two jerk loops alike
Lsum(shell, Nmaxshells, whsplitting, i, d, base) ==
    LET dcrit_i == shell < Nmaxshells - 1
        dcrit_o == shell > 0
        dc_c == dcritsum(shell, base)
        outer == IF dcrit_o /\ (~whsplitting \/ shell # 1 \/ i # 0)
                 THEN -reb_integrator_mercurana_L_infinity(d, dc_c,
                          dcritsum(shell - 1, base))
                 ELSE 0
        inner == IF dcrit_i
                 THEN reb_integrator_mercurana_L_infinity(d,
                          dcritsum(shell + 1, base), dc_c)
                 ELSE 1000
    IN outer + inner

\* the weight interaction_step gives the pair in one shell: the loops start
\* at starti, so a pair of slot 0 gets no force at all in shell 0 under
\* whsplitting
PairWeight(shell, Nmaxshells, whsplitting, i, d, base) ==
    LET starti == IF whsplitting /\ shell = 0 THEN 1 ELSE 0
    IN IF i < starti THEN 0
       ELSE Lsum(shell, Nmaxshells, whsplitting, i, d, base)

\* a pair of particles that is in every shell: the slot of its first particle
\* in shells 0 and 1 (0 is the central body), its distance, its dcrit
WeightInputs ==
    [op : {"weights"}, Nmaxshells : 1 .. MaxShells, whsplitting : BOOLEAN,
     i : {0, 1}, d : {5 * x : x \in 0 .. MaxDist}, base : {64},
     shell : {0}, sum : {0}]

InitWeights ==
    /\ ri_bs = InitialStruct
    /\ call = NoCall
    /\ exited = "no"
    /\ ncalls = 0
    /\ r = InitialSim
    /\ pending = <<>>
    /\ fn \in WeightInputs

\* the interaction step of the next shell adds its weight of the pair
InteractionWeight ==
    /\ fn.op = "weights"
    /\ fn.shell < fn.Nmaxshells
    /\ fn' = [fn EXCEPT
                 !.sum = @ + PairWeight(fn.shell, fn.Nmaxshells, fn.whsplitting,
                                        fn.i, fn.d, fn.base),
                 !.shell = @ + 1]
    /\ UNCHANGED bsvars
    /\ UNCHANGED mvars

NextWeights == InteractionWeight

SpecWeights == InitWeights /\ [][NextWeights]_vars

AllShellsWeighted == fn.op = "weights" /\ fn.shell = fn.Nmaxshells

\* C11: for every pair and every distance d the weights Lsum of all shells
\* 0 .. Nmaxshells - 1 add up to exactly 1, for every Nmaxshells >= 1, with
\* and without whsplitting, the pair of the central body included
WeightsSumToOne == AllShellsWeighted => fn.sum = 1000

\* the same without the one configuration that has no shell 1 for the pair
\* of the central body: whsplitting with Nmaxshells = 1
WeightsSumToOneWithShellOne ==
    (AllShellsWeighted /\ ~(fn.whsplitting /\ fn.Nmaxshells = 1 /\ fn.i = 0)) =>
        fn.sum = 1000

\* the weights of a pair of the central body in the transition zone of shells
\* 1 and 2, summed over four shells under whsplitting
CentralPairWeighted ==
    /\ AllShellsWeighted
    /\ fn.whsplitting
    /\ fn.i = 0
    /\ fn.Nmaxshells = 4
    /\ fn.d = 30
    /\ fn.sum = 1000

----------------------------------------------------------------------------
(* extrapolate, and the seeding of the tableau in reb_integrator_bs_step, in *)
(* exact arithmetic: a double is a fraction <<n, d>> in lowest terms, d > 0. *)

MaxColumn == 3    \* last column k of the tableau that is extrapolated

RECURSIVE Gcd(_, _)
Gcd(a, b) == IF b = 0 THEN a ELSE Gcd(b, a % b)

Rat(n, d) ==
    LET g == Gcd(Abs(n), Abs(d))
        sign == IF d < 0 THEN -1 ELSE 1
    IN <<sign * (n \div g), sign * (d \div g)>>

RatAdd(p, q) ==
    LET g == Gcd(p[2], q[2])
    IN Rat(p[1] * (q[2] \div g) + q[1] * (p[2] \div g), (p[2] \div g) * q[2])

RatSub(p, q) == RatAdd(p, <<-q[1], q[2]>>)

RatMul(p, q) ==
    LET g1 == Gcd(Abs(p[1]), q[2])
        g2 == Gcd(Abs(q[1]), p[2])
    IN Rat((p[1] \div g1) * (q[1] \div g2), (p[2] \div g2) * (q[2] \div g1))

RatDiv(p, q) == RatMul(p, Rat(q[2], q[1]))

\* coeff[j] = 1 / sequence[j]^2, as allocate_sequence_arrays sets it
coeff(j) == Rat(1, sequence(j) * sequence(j))

\* the extrapolation with the two factors exchanged
ExtrapolateSwappedFactors(state, k) ==
    LET Sweep[j \in 0 .. k] ==
            IF j = 0 THEN [C |-> state.C, D |-> state.D]
            ELSE LET before == Sweep[j - 1]
                     m == k - (j - 1) - 1
                     xi == coeff(m)
                     xim1 == coeff(k)
                     facC == RatDiv(xim1, RatSub(xi, xim1))
                     facD == RatDiv(xi, RatSub(xi, xim1))
                     CD == [i \in 1 .. state.length |->
                               RatSub(before.C[i], before.D[m][i])]
                 IN [C |-> [i \in 1 .. state.length |-> RatMul(facC, CD[i])],
                     D |-> [before.D EXCEPT
                               ![m] = [i \in 1 .. state.length |->
                                          RatMul(facD, CD[i])]]]
        swept == Sweep[k]
        Sum[j \in 0 .. k] ==
            IF j = 0 THEN swept.D[0]
            ELSE [i \in 1 .. state.length |-> RatAdd(Sum[j - 1][i], swept.D[j][i])]
    IN [state EXCEPT !.C = swept.C, !.D = swept.D, !.y1 = Sum[k]]

\* extrapolate: Sweep[j] is C and D after j passes of the loop over j (the
\* pass j - 1 of the source works on row m = k - (j-1) - 1), and y1 is the sum
\* of D[0 .. k]
extrapolate(state, k) ==
    LET Sweep[j \in 0 .. k] ==
            IF j = 0 THEN [C |-> state.C, D |-> state.D]
            ELSE LET before == Sweep[j - 1]
                     m == k - (j - 1) - 1
                     xi == coeff(m)
                     xim1 == coeff(k)
                     facC == RatDiv(xi, RatSub(xi, xim1))
                     facD == RatDiv(xim1, RatSub(xi, xim1))
                     CD == [i \in 1 .. state.length |->
                               RatSub(before.C[i], before.D[m][i])]
                 IN [C |-> [i \in 1 .. state.length |-> RatMul(facC, CD[i])],
                     D |-> [before.D EXCEPT
                               ![m] = [i \in 1 .. state.length |->
                                          RatMul(facD, CD[i])]]]
        swept == Sweep[k]
        Sum[j \in 0 .. k] ==
            IF j = 0 THEN swept.D[0]
            ELSE [i \in 1 .. state.length |-> RatAdd(Sum[j - 1][i], swept.D[j][i])]
    IN [state EXCEPT !.C = swept.C, !.D = swept.D, !.y1 = Sum[k]]

\* reb_integrator_bs_step after a successful tryStep at column k: the row
\* tryStep left in y1 is copied to C and D[k], and extrapolated when k > 0
SeedAndExtrapolate(state, k) ==
    LET seeded == [state EXCEPT !.C = state.y1, !.D[k] = state.y1]
    IN IF k > 0 THEN extrapolate(seeded, k) ELSE seeded

\* the rows tryStep produces in one step, two components each: the first is
\* the polynomial c[1] + c[2] x + c[3] x^2 at x = coeff[k], the second has
\* nothing to do with a polynomial
Polynomials ==
    {<<2, 0, 0>>, <<-1, 0, 0>>, <<1, 4, 0>>, <<0, -8, 0>>, <<3, 44100, 0>>,
     <<-2, 4, 16>>, <<0, 0, 16>>, <<5, -4, 32>>}

OtherRows ==
    {<<1, 0, 0, 0, 0>>, <<0, 1, 0, 0, 0>>, <<0, 0, 1, 0, 0>>, <<0, 0, 0, 1, 0>>,
     <<0, 0, 0, 0, 1>>, <<2, -1, 3, 0, 1>>, <<-1, 1, -1, 1, -1>>}

PolyAt(c, x) ==
    RatAdd(Rat(c[1], 1),
           RatAdd(RatMul(Rat(c[2], 1), x), RatMul(Rat(c[3], 1), RatMul(x, x))))

Degree(c) == IF c[3] # 0 THEN 2 ELSE IF c[2] # 0 THEN 1 ELSE 0

Row(c, a, k) == <<PolyAt(c, coeff(k)), Rat(a[k + 1], 1)>>

\* a state of two components whose buffers are allocated but not written
ExtrapolateInputs ==
    [op : {"extrapolate"}, c : Polynomials, a : OtherRows, k : {-1},
     state : {[length |-> 2, y1 |-> NULL, C |-> NULL,
               D |-> [j \in Columns |-> NULL]]}]

InitExtrapolate ==
    /\ ri_bs = InitialStruct
    /\ call = NoCall
    /\ exited = "no"
    /\ ncalls = 0
    /\ r = InitialSim
    /\ pending = <<>>
    /\ fn \in ExtrapolateInputs

\* one pass of the column loop: ++k, the row of tryStep, seeding, extrapolation
ExtrapolateColumn ==
    /\ fn.op = "extrapolate"
    /\ fn.k < MaxColumn
    /\ LET k == fn.k + 1
           tried == [fn.state EXCEPT !.y1 = Row(fn.c, fn.a, k)]
       IN fn' = [fn EXCEPT !.k = k, !.state = SeedAndExtrapolate(tried, k)]
    /\ UNCHANGED bsvars
    /\ UNCHANGED mvars

NextExtrapolate == ExtrapolateColumn

SpecExtrapolate == InitExtrapolate /\ [][NextExtrapolate]_vars

\* Neville's scheme: the value at x = 0 of the polynomial through the points
\* (coeff[j], T[j]), j = lo .. hi
RECURSIVE Neville(_, _, _)
Neville(T, lo, hi) ==
    IF lo = hi THEN T[lo]
    ELSE RatDiv(RatSub(RatMul(coeff(lo), Neville(T, lo + 1, hi)),
                       RatMul(coeff(hi), Neville(T, lo, hi - 1))),
                RatSub(coeff(lo), coeff(hi)))

\* C13: after the rows T_0 .. T_k of one step were seeded in order and
\* extrapolate ran at column k, y1[i] is the value at x = 0 of Neville's
\* polynomial through (coeff[j], T_j[i]), j = 0 .. k; for rows sampled from a
\* polynomial g of degree <= k in x it is g(0)
ExtrapolateIsNeville ==
    (fn.op = "extrapolate" /\ fn.k >= 1) =>
        /\ \A i \in 1 .. 2 :
              fn.state.y1[i] =
                  Neville([j \in 0 .. fn.k |-> Row(fn.c, fn.a, j)[i]], 0, fn.k)
        /\ Degree(fn.c) <= fn.k => fn.state.y1[1] = Rat(fn.c[1], 1)

\* column 2 of rows sampled from a polynomial of degree 2 whose value at 0 is
\* none of the rows, next to rows that are 0 but for a 1 in row 1
QuadraticExtrapolated ==
    /\ fn.op = "extrapolate"
    /\ fn.k = 2
    /\ fn.c = <<5, -4, 32>>
    /\ fn.a = <<0, 1, 0, 0, 0>>
    /\ fn.state.y1[1] = <<5, 1>>
    /\ \A j \in 0 .. 2 : Row(fn.c, fn.a, j)[1] # <<5, 1>>
    /\ fn.state.y1[2] # <<0, 1>>

----------------------------------------------------------------------------
(* The pre-processor and the post-processor of a scheme, call by call *)

\* enum REB_EOS_TYPE, as the cases of reb_integrator_mercurana_step name it
Schemes ==
    {"LF", "LF4", "LF6", "LF8", "LF4_2", "LF8_6_4", "PMLF4", "PMLF6", "PLF7_6_4"}

ProcessorInputs ==
    [op : {"processors"}, type : Schemes, shell : 0 .. (MaxShells - 1),
     at : {"preprocessor"}, pre : {<<>>}, post : {<<>>}]

InitProcessors ==
    /\ ri_bs = InitialStruct
    /\ call = NoCall
    /\ exited = "no"
    /\ ncalls = 0
    /\ r = InitialSim
    /\ pending = <<>>
    /\ fn \in ProcessorInputs

\* the pre-processor issues its next call
PreprocessorCall ==
    /\ fn.op = "processors"
    /\ fn.at = "preprocessor"
    /\ LET calls == reb_integrator_mercurana_preprocessor(fn.shell, fn.type)
       IN /\ Len(fn.pre) < Len(calls)
          /\ fn' = [fn EXCEPT !.pre = Append(@, calls[Len(fn.pre) + 1])]
    /\ UNCHANGED bsvars
    /\ UNCHANGED mvars

PreprocessorReturn ==
    /\ fn.op = "processors"
    /\ fn.at = "preprocessor"
    /\ Len(fn.pre) = Len(reb_integrator_mercurana_preprocessor(fn.shell, fn.type))
    /\ fn' = [fn EXCEPT !.at = "postprocessor"]
    /\ UNCHANGED bsvars
    /\ UNCHANGED mvars

\* the post-processor issues its next call
PostprocessorCall ==
    /\ fn.op = "processors"
    /\ fn.at = "postprocessor"
    /\ LET calls == reb_integrator_mercurana_postprocessor(fn.shell, fn.type)
       IN /\ Len(fn.post) < Len(calls)
          /\ fn' = [fn EXCEPT !.post = Append(@, calls[Len(fn.post) + 1])]
    /\ UNCHANGED bsvars
    /\ UNCHANGED mvars

PostprocessorReturn ==
    /\ fn.op = "processors"
    /\ fn.at = "postprocessor"
    /\ Len(fn.post) = Len(reb_integrator_mercurana_postprocessor(fn.shell, fn.type))
    /\ fn' = [fn EXCEPT !.at = "returned"]
    /\ UNCHANGED bsvars
    /\ UNCHANGED mvars

NextProcessors ==
    \/ PreprocessorCall
    \/ PreprocessorReturn
    \/ PostprocessorCall
    \/ PostprocessorReturn

SpecProcessors == InitProcessors /\ [][NextProcessors]_vars

Negated(c) == [c EXCEPT !.sign = -c.sign]

\* a call with every coefficient negated: same table entries, same shell
NegatedCall(c) ==
    IF c.op = "drift" THEN [c EXCEPT !.a = Negated(c.a)]
    ELSE [c EXCEPT !.y = Negated(c.y), !.v = Negated(c.v)]

Reversed(calls) == [x \in 1 .. Len(calls) |-> calls[Len(calls) + 1 - x]]

\* C14: for PMLF4, PMLF6 and PLF7_6_4 the calls of the post-processor are
\* those of the pre-processor in reverse order with every drift, kick and
\* jerk coefficient negated; for every other scheme neither issues a call
PostprocessorMirrorsPreprocessor ==
    (fn.op = "processors" /\ fn.at = "returned") =>
        /\ fn.post = Reversed([x \in 1 .. Len(fn.pre) |-> NegatedCall(fn.pre[x])])
        /\ fn.type \notin {"PMLF4", "PMLF6", "PLF7_6_4"} =>
              fn.pre = <<>> /\ fn.post = <<>>
        /\ fn.type \in {"PMLF4", "PMLF6", "PLF7_6_4"} => fn.pre # <<>>

\* both processors of PMLF6 have run in shell 2, twelve calls each, the jerk
\* coefficient of the first call of the post-processor being -dt^3 v[5]
Pmlf6Processed ==
    /\ fn.op = "processors"
    /\ fn.at = "returned"
    /\ fn.type = "PMLF6"
    /\ fn.shell = 2
    /\ Len(fn.pre) = 12
    /\ Len(fn.post) = 12
    /\ fn.post[1] = InteractionCall(2, Coef("reb_eos_pmlf6_y", 5, -1, 1),
                                    Coef("reb_eos_pmlf6_v", 5, -1, 3))

----------------------------------------------------------------------------
(* tryStep taken by itself: one call tryStep(states, Ns, k, n, t0, step,    *)
(* method) with n = sequence[k], followed sub-step by sub-step.  fn holds   *)
(* the arguments k, n, method and the locals: j, the sub-step of the loop;  *)
(* t, the time t - t0 in halves of subStep; t_derivatives, the time of the  *)
(* last call of the derivatives; ret, the value returned (-1 before the     *)
(* return); at, the position in the function.  unstable is what the user's *)
(* derivatives bring about: the sub-steps j at which                        *)
(* deltaNorm > 4 * MAX(1.0e-15, initialNorm) is true of yDot and y0Dot.     *)

\* the sub-steps whose norms are drawn
MaxChecked == 2

\* the stability check of the sub-step j, were it made at every sub-step of
\* the first maxIter columns
StabilityCheckEverySubStep(c) ==
    c.k < maxIter /\ c.j \in c.unstable

\* if (j <= maxChecks && k < maxIter) { ... if (deltaNorm > ...) return 0; }
StabilityCheck(c) ==
    c.j <= maxChecks /\ c.k < maxIter /\ c.j \in c.unstable

\* switch (method) and the first sub-step: the leapfrog drifts by half a
\* sub-step and calls the derivatives there, the midpoint advances by one
\* sub-step and calls them there; any other method ends in exit(1)
tryStepFirstSubStep(c) ==
    CASE c.method = 0 ->
             [c EXCEPT !.at = "loop", !.j = 1, !.t = 1, !.t_derivatives = 1]
      [] c.method = 1 ->
             [c EXCEPT !.at = "loop", !.j = 1, !.t = 2, !.t_derivatives = 2]
      [] OTHER -> [c EXCEPT !.at = "exited"]

\* a pass that calls the derivatives before it advances t
tryStepSubStepEvaluatingFirst(c) ==
    LET moved == [c EXCEPT !.t = c.t + 2, !.t_derivatives = c.t]
    IN IF c.method = 1 /\ StabilityCheck(c)
       THEN [moved EXCEPT !.at = "returned", !.ret = 0]
       ELSE [moved EXCEPT !.j = c.j + 1]

\* one pass of for (int j = 1; j < n; ++j): t += subStep, the derivatives at
\* t, and for the midpoint method the stability check
tryStepSubStep(c) ==
    LET moved == [c EXCEPT !.t = c.t + 2, !.t_derivatives = c.t + 2]
    IN IF c.method = 1 /\ StabilityCheck(c)
       THEN [moved EXCEPT !.at = "returned", !.ret = 0]
       ELSE [moved EXCEPT !.j = c.j + 1]

\* the correction of the last sub-step and return 1
tryStepCorrection(c) == [c EXCEPT !.at = "returned", !.ret = 1]

TryStepInputs ==
    [op : {"tryStep"}, method : {0, 1, 2}, k : Columns, n : {0},
     unstable : SUBSET (1 .. MaxChecked), j : {0}, t : {0},
     t_derivatives : {-1}, ret : {-1}, at : {"entry"}]

InitTryStep ==
    /\ ri_bs = InitialStruct
    /\ call = NoCall
    /\ exited = "no"
    /\ ncalls = 0
    /\ r = InitialSim
    /\ pending = <<>>
    /\ fn \in {[c EXCEPT !.n = sequence(c.k)] : c \in TryStepInputs}

TryStepEnter ==
    /\ fn.op = "tryStep"
    /\ fn.at = "entry"
    /\ fn' = tryStepFirstSubStep(fn)
    /\ UNCHANGED <<ri_bs, call, exited, ncalls, r, pending>>

TryStepSubStep ==
    /\ fn.op = "tryStep"
    /\ fn.at = "loop"
    /\ fn.j < fn.n
    /\ fn' = tryStepSubStep(fn)
    /\ UNCHANGED <<ri_bs, call, exited, ncalls, r, pending>>

TryStepCorrection ==
    /\ fn.op = "tryStep"
    /\ fn.at = "loop"
    /\ fn.j >= fn.n
    /\ fn' = tryStepCorrection(fn)
    /\ UNCHANGED <<ri_bs, call, exited, ncalls, r, pending>>

NextTryStep ==
    \/ TryStepEnter
    \/ TryStepSubStep
    \/ TryStepCorrection

SpecTryStep == InitTryStep /\ [][NextTryStep]_vars

\* C20: tryStep returns 0 only for method = 1, only at a column k < maxIter,
\* that is k = 0 or k = 1, and only at sub-step j = 1; with method = 0 it
\* always returns 1
TryStepRejectsOnlyMidpointFirstCheck ==
    fn.op = "tryStep" =>
        /\ fn.ret = 0 =>
               /\ fn.method = 1
               /\ fn.k < maxIter
               /\ fn.k \in {0, 1}
               /\ fn.j = 1
        /\ (fn.method = 0 /\ fn.at = "returned") => fn.ret = 1

\* a midpoint tryStep of column 1 (six sub-steps) that has returned 0, and one
\* that has returned 1 although the norms of sub-step 2 were out of bounds
TryStepRejectedColumnOne ==
    /\ fn.op = "tryStep"
    /\ fn.method = 1
    /\ fn.k = 1
    /\ fn.n = 6
    /\ fn.ret = 0

TryStepPastUncheckedSubStep ==
    /\ fn.op = "tryStep"
    /\ fn.method = 1
    /\ fn.k = 1
    /\ fn.unstable = {2}
    /\ fn.ret = 1

\* the consequence for the controller: a macro step of the leapfrog method is
\* rejected only through the error criteria
LeapfrogRejectedThroughError ==
    (call.ret = 0 /\ call.entry.method = 0) => call.cause \in {"error", "order"}

\* a midpoint tryStep that has returned 1
MidpointSucceeded ==
    /\ fn.op = "tryStep"
    /\ fn.method = 1
    /\ fn.at = "returned"
    /\ fn.ret = 1

\* C21: on success of the midpoint tryStep with n sub-steps the last
\* derivatives evaluation, left in yDot, is taken at t0 + step - subStep
\* (times are counted from t0 in halves of subStep, step being 2 n)
LastDerivativesBeforeEnd ==
    MidpointSucceeded => fn.t_derivatives = 2 * fn.n - 2

\* C21, as the code has it: the last derivatives evaluation of a successful
\* midpoint tryStep is taken at t0 + step, the end of the step
LastDerivativesAtEnd ==
    MidpointSucceeded => fn.t_derivatives = 2 * fn.n /\ fn.t = 2 * fn.n

\* a successful midpoint tryStep of column 1: six sub-steps, five passes of
\* the loop, the last evaluation at time 12 (in halves of subStep)
MidpointSixSubSteps ==
    /\ MidpointSucceeded
    /\ fn.n = 6
    /\ fn.j = 6
    /\ fn.t_derivatives = 12

----------------------------------------------------------------------------
(* tryStep with its arithmetic: one state of length 6, laid out as the      *)
(* N-body state is (three positions, three velocities), subStep = 2 and     *)
(* small integers, on which the arithmetic of the doubles is exact.  The    *)
(* derivatives callback is that of a particle bound to the origin, with or  *)
(* without a force that reads the velocity.  The buffers y1, yTmp and yDot  *)
(* hold at entry what an earlier attempt (or malloc) has left in them.      *)

SubStep == 2

Components == 1 .. 6

\* the callback: yDot of a position is the velocity, yDot of a velocity the
\* acceleration -x, less damping * v for a force that reads the velocity
derivatives(y, damping) ==
    [i \in Components |->
        IF i <= 3 THEN y[i + 3] ELSE -y[i - 3] - damping * y[i]]

\* case 0, first substep: half a drift of the positions into y1, the
\* derivatives at y1, a kick of the velocities from y
LeapfrogFirstSubStep(c) ==
    LET drifted == [i \in Components |->
                       IF i <= 3 THEN c.y[i] + (SubStep \div 2) * c.y[i + 3]
                       ELSE c.y1[i]]
        yDot == derivatives(drifted, c.damping)
    IN [c EXCEPT !.yDot = yDot,
                 !.y1 = [i \in Components |->
                            IF i > 3 THEN c.y[i] + SubStep * yDot[i]
                            ELSE drifted[i]]]

\* case 0, one pass of the loop: drift, derivatives, kick, all on y1
LeapfrogSubStep(c) ==
    LET drifted == [i \in Components |->
                       IF i <= 3 THEN c.y1[i] + SubStep * c.y1[i + 3]
                       ELSE c.y1[i]]
        yDot == derivatives(drifted, c.damping)
    IN [c EXCEPT !.yDot = yDot,
                 !.y1 = [i \in Components |->
                            IF i > 3 THEN drifted[i] + SubStep * yDot[i]
                            ELSE drifted[i]]]

\* case 0, correction of the last substep: half a drift
LeapfrogCorrection(c) ==
    [c EXCEPT !.y1 = [i \in Components |->
                         IF i <= 3 THEN c.y1[i] + (SubStep \div 2) * c.y1[i + 3]
                         ELSE c.y1[i]]]

\* case 1, first substep: y1 = y + subStep * y0Dot, the derivatives at y1,
\* yTmp = y
MidpointFirstSubStep(c) ==
    LET y1 == [i \in Components |-> c.y[i] + SubStep * c.y0Dot[i]]
    IN [c EXCEPT !.y1 = y1, !.yDot = derivatives(y1, c.damping), !.yTmp = c.y]

\* case 1, one pass of the loop
MidpointSubStep(c) ==
    LET y1 == [i \in Components |-> c.yTmp[i] + 2 * SubStep * c.yDot[i]]
    IN [c EXCEPT !.y1 = y1, !.yTmp = c.y1, !.yDot = derivatives(y1, c.damping)]

\* case 1, correction: y1 = 0.5 * (yTmp + y1 + subStep * yDot), the sum being
\* even here
MidpointCorrection(c) ==
    [c EXCEPT !.y1 = [i \in Components |->
                         (c.yTmp[i] + c.y1[i] + SubStep * c.yDot[i]) \div 2]]

\* for (int j = 1; j < n; ++j)
RECURSIVE SubSteps(_, _)
SubSteps(c, j) ==
    IF j >= c.n THEN c
    ELSE SubSteps(IF c.method = 0 THEN LeapfrogSubStep(c) ELSE MidpointSubStep(c),
                  j + 1)

\* a successful tryStep: the buffers at return 1
tryStepBuffers(c) ==
    IF c.method = 0
    THEN LeapfrogCorrection(SubSteps(LeapfrogFirstSubStep(c), 1))
    ELSE MidpointCorrection(SubSteps(MidpointFirstSubStep(c), 1))

\* the y of the state and what the buffers may hold at entry
YVals == {<<1, 0, 0, 0, 1, 0>>, <<-2, 0, 1, 1, 0, -1>>, <<3, 1, 0, 0, 0, 2>>,
          <<0, 2, -1, 1, 1, 0>>}
StaleVals == {0, 1, -3, 4}

BufferInputs ==
    {[op |-> "buffers", method |-> m, n |-> sequence(k), damping |-> d,
      y |-> y, y0Dot |-> derivatives(y, d),
      y1 |-> [i \in Components |-> v],
      yTmp |-> [i \in Components |-> v],
      yDot |-> [i \in Components |-> v],
      stale |-> v, at |-> "entry"] :
        m \in {0, 1}, k \in {0, 1}, d \in {0, 1}, y \in YVals, v \in StaleVals}

InitBuffers ==
    /\ ri_bs = InitialStruct
    /\ call = NoCall
    /\ exited = "no"
    /\ ncalls = 0
    /\ r = InitialSim
    /\ pending = <<>>
    /\ fn \in BufferInputs

\* the call returns 1; entry keeps the buffers the call was given
TryStepSucceeds ==
    /\ fn.op = "buffers"
    /\ fn.at = "entry"
    /\ fn' = [tryStepBuffers(fn) EXCEPT !.at = "returned"]
    /\ UNCHANGED <<ri_bs, call, exited, ncalls, r, pending>>

NextBuffers == TryStepSucceeds

SpecBuffers == InitBuffers /\ [][NextBuffers]_vars

\* the same call with y1, yTmp and yDot cleared at entry
Cleared(c) ==
    [c EXCEPT !.y1 = [i \in Components |-> 0],
              !.yTmp = [i \in Components |-> 0],
              !.yDot = [i \in Components |-> 0]]

\* the call that has returned, as it was at entry
AtCall(c) ==
    [c EXCEPT !.y1 = [i \in Components |-> c.stale],
              !.yTmp = [i \in Components |-> c.stale],
              !.yDot = [i \in Components |-> c.stale]]

\* C22: the y1 of a successful tryStep, of either method, is the same as that
\* of the run that differs only in what y1, yTmp and yDot held at entry,
\* also when the derivatives read the velocities
Y1IndependentOfBuffers ==
    (fn.op = "buffers" /\ fn.at = "returned") =>
        fn.y1 = tryStepBuffers(Cleared(AtCall(fn))).y1

\* the same for the midpoint method, and for the leapfrog method with
\* derivatives that do not read the velocities
Y1IndependentOfBuffersMidpoint ==
    (fn.op = "buffers" /\ fn.at = "returned"
        /\ (fn.method = 1 \/ fn.damping = 0)) =>
        fn.y1 = tryStepBuffers(Cleared(AtCall(fn))).y1

\* a leapfrog call with derivatives that read the velocities has returned
\* with y1 differing from that of the run with cleared buffers
LeapfrogDependsOnBuffers ==
    /\ fn.op = "buffers"
    /\ fn.at = "returned"
    /\ fn.method = 0
    /\ fn.damping = 1
    /\ fn.y1 # tryStepBuffers(Cleared(AtCall(fn))).y1

----------------------------------------------------------------------------
(* reb_integrator_bs_part2: one macro step of the built-in N-body ODE.  The *)
(* particles are copied into y of the N-body state, the step is made, t and *)
(* dt are updated and the particles are copied back from y.  The user may   *)
(* add or remove particles and call reb_integrator_bs_reset between two     *)
(* calls.                                                                    *)

MaxBodies == 2
MaxPart2Calls == 2

\* the numbers of N particles
ParticleVals(N) == [i \in 1 .. (6 * N) |-> (i % 5) - 2]

\* the lines before the copy: firstOrLastStep on the last step, the arrays of
\* the sequence, and the N-body state when nbody_state is NULL
Part2Prepare(ri, sim, last) ==
    LET flagged == IF last THEN [ri EXCEPT !.firstOrLastStep = TRUE] ELSE ri
        alloc == IF flagged.sequence = NULL
                 THEN allocate_sequence_arrays(flagged) ELSE flagged
    IN IF alloc.nbody_state = 0
       THEN [reb_integrator_bs_add_ode(alloc, sim.N * 3 * 2) EXCEPT
                !.nbody_state = alloc.N + 1, !.firstOrLastStep = TRUE]
       ELSE alloc

\* nbody_state points into an array of states that has been freed
NbodyDangling(ri) == ri.nbody_state > ri.N

\* the copy of the particles needs more than the length of the buffers
NbodyOverflow(ri, sim) ==
    /\ ~NbodyDangling(ri)
    /\ 6 * sim.N > ri.states[ri.nbody_state].length

\* for (i < r->N) y[i*6+0] = p.x ...: within the buffer
CopyIn(ri, sim) ==
    LET s == ri.nbody_state
    IN [ri EXCEPT !.states[s].y =
           [i \in 1 .. ri.states[s].length |->
               IF i <= 6 * sim.N THEN sim.particles[i] ELSE ri.states[s].y[i]]]

\* nbody_derivatives writes its argument into the particles at every
\* evaluation
Overwritten(sim, env) ==
    [sim EXCEPT !.particles = [i \in 1 .. (6 * sim.N) |-> env.row]]

\* a part2 that leaves the particles as the last derivatives evaluation has
\* written them
CopyOutOmitted(ri, sim, before) == sim

\* for (i < r->N) p->x = y[i*6+0] ...: beyond the buffer the copy reads
\* what the copy before the step has written there
CopyOut(ri, sim, before) ==
    LET s == ri.nbody_state
    IN [sim EXCEPT !.particles =
           [i \in 1 .. (6 * sim.N) |->
               IF i <= ri.states[s].length THEN ri.states[s].y[i]
               ELSE before.particles[i]]]

\* the lines after the step: success, t, dt_last_done, dt and the copy of y
\* into the particles; res is what reb_integrator_bs_step has returned
Part2AfterStep(res, sim, env) ==
    LET during == Overwritten(sim, env)
        timed == IF res.reject THEN during
                 ELSE [during EXCEPT !.t = sim.t + sim.dt,
                                     !.dt_last_done = sim.dt]
        after == [timed EXCEPT !.dt = res.ri.dt_proposed]
    IN [res |-> res,
        sim |-> IF res.fatal # "no" THEN during
                ELSE CopyOut(res.ri, after, sim)]

\* the step and the lines after it
Part2Step(ri, sim, env) ==
    Part2AfterStep(reb_integrator_bs_step(ri, sim.dt, env), sim, env)

\* what a call of part2 leaves in call
Part2Record(res, sim, prepared) ==
    [ret |-> IF res.fatal # "no" THEN -2 ELSE IF res.reject THEN 0 ELSE 1,
     k |-> res.k, error |-> res.error, cause |-> res.cause, dt |-> sim.dt,
     dt_out |-> res.dt, idx |-> res.idx, entry |-> prepared]

Part2Setups ==
    [N : 1 .. MaxBodies, dt : {10 ^ 7}]

InitPart2 ==
    /\ ri_bs = InitialStruct
    /\ call = NoCall
    /\ exited = "no"
    /\ ncalls = 0
    /\ r \in {[InitialSim EXCEPT !.N = u.N, !.dt = u.dt,
                                 !.particles = ParticleVals(u.N)] :
                  u \in Part2Setups}
    /\ pending = <<>>
    /\ fn = NoFn

\* reb_integrator_bs_part2(r) with the buffers in order
BsPart2 ==
    /\ exited = "no"
    /\ ncalls < MaxPart2Calls
    /\ \E last \in BOOLEAN :
          \E prepared \in {Part2Prepare(ri_bs, r, last)} :
             /\ ~NbodyDangling(prepared)
             /\ ~NbodyOverflow(prepared, r)
             /\ \E env \in Envs(InitialOrder(prepared).targetIter) :
                   \E out \in {Part2Step(CopyIn(prepared, r), r, env)} :
                      /\ ri_bs' = out.res.ri
                      /\ r' = out.sim
                      /\ exited' = out.res.fatal
                      /\ call' = Part2Record(out.res, r, prepared)
    /\ ncalls' = ncalls + 1
    /\ UNCHANGED <<pending, fn>>

\* reb_integrator_bs_part2(r) after particles have been added: the copy
\* writes beyond y, which is undefined: the program crashes, or goes on with
\* the memory beyond the buffer holding what was written
BsPart2Overflowing ==
    /\ exited = "no"
    /\ ncalls < MaxPart2Calls
    /\ \E last \in BOOLEAN :
          \E prepared \in {Part2Prepare(ri_bs, r, last)},
             faulty \in {[r EXCEPT !.fault = "overflow"]} :
             /\ NbodyOverflow(prepared, r)
             /\ \/ /\ exited' = "crash"
                   /\ ri_bs' = prepared
                   /\ r' = faulty
                   /\ call' = [NoCall EXCEPT !.ret = -2, !.dt = r.dt,
                                             !.entry = prepared]
                \/ \E env \in Envs(InitialOrder(prepared).targetIter) :
                      \E out \in {Part2Step(CopyIn(prepared, faulty), faulty, env)} :
                         /\ ri_bs' = out.res.ri
                         /\ r' = out.sim
                         /\ exited' = out.res.fatal
                         /\ call' = Part2Record(out.res, r, prepared)
    /\ ncalls' = ncalls + 1
    /\ UNCHANGED <<pending, fn>>

\* reb_integrator_bs_part2(r) after a reset: nbody_state is not NULL and
\* points into the freed array of states, so no state is added and
\* nbody_state->y is read from freed memory, which is undefined: the program
\* crashes, or it goes on to a step without states, whose error is not a
\* number
BsPart2Dangling ==
    /\ exited = "no"
    /\ ncalls < MaxPart2Calls
    /\ \E last \in BOOLEAN :
          \E prepared \in {Part2Prepare(ri_bs, r, last)} :
             /\ NbodyDangling(prepared)
             /\ ri_bs' = prepared
             /\ call' = [NoCall EXCEPT !.ret = -2, !.dt = r.dt,
                                       !.entry = prepared]
    /\ exited' \in {"crash", "nan"}
    /\ r' = [r EXCEPT !.fault = "freed"]
    /\ ncalls' = ncalls + 1
    /\ UNCHANGED <<pending, fn>>

\* the user adds or removes particles between two steps
Part2SetParticles ==
    /\ exited = "no"
    /\ \E n \in 1 .. MaxBodies :
          /\ n # r.N
          /\ r' = [r EXCEPT !.N = n,
                            !.particles = [i \in 1 .. (6 * n) |->
                                IF i <= 6 * r.N THEN r.particles[i]
                                ELSE ParticleVals(n)[i]]]
    /\ UNCHANGED <<ri_bs, call, exited, ncalls, pending, fn>>

\* reb_integrator_bs_reset(r)
Part2Reset ==
    /\ exited = "no"
    /\ ri_bs.sequence # NULL
    /\ ri_bs' = reb_integrator_bs_reset_struct(ri_bs)
    /\ call' = NoCall
    /\ UNCHANGED <<r, exited, ncalls, pending, fn>>

NextPart2 ==
    \/ BsPart2
    \/ BsPart2Overflowing
    \/ BsPart2Dangling
    \/ Part2SetParticles
    \/ Part2Reset

SpecPart2 == InitPart2 /\ [][NextPart2]_vars

\* C23: a rejected macro step of reb_integrator_bs_part2 leaves t,
\* dt_last_done and the positions and velocities of the particles as they
\* were before the call and sets dt to dt_proposed; an accepted one advances
\* t by the dt that was attempted and sets dt_last_done to it
Part2KeepsRejectedState ==
    [][(ncalls' # ncalls /\ call'.ret \in {0, 1}) =>
          /\ r'.dt = ri_bs'.dt_proposed
          /\ call'.ret = 0 =>
                 /\ r'.t = r.t
                 /\ r'.dt_last_done = r.dt_last_done
                 /\ r'.particles = r.particles
          /\ call'.ret = 1 =>
                 /\ r'.t = r.t + r.dt
                 /\ r'.dt_last_done = r.dt]_vars

\* a rejected macro step after an accepted one: the particles are those the
\* accepted step has left, not what the derivatives have written since
RejectedAfterAccepted ==
    /\ call.ret = 0
    /\ ncalls = 2
    /\ r.t > 0
    /\ r.dt_last_done = r.t
    /\ r.fault = "none"
    /\ r.particles = ri_bs.states[ri_bs.nbody_state].y
    /\ r.particles # ParticleVals(r.N)

\* C24: when the number of particles has changed between two calls of
\* reb_integrator_bs_part2 the buffers of the N-body state are sized to 6 N
\* before they are written, and no call writes or reads y, y1 or yDot beyond
\* index length - 1
NbodyBuffersSized ==
    [][ncalls' # ncalls =>
          /\ r'.fault # "overflow"
          /\ ri_bs'.nbody_state \in 1 .. ri_bs'.N =>
                 ri_bs'.states[ri_bs'.nbody_state].length = 6 * r'.N]_vars

\* the buffers have the size of the first call as long as there is no reset
NbodyBuffersKeepFirstSize ==
    [][(ncalls' # ncalls /\ ri_bs.nbody_state \in 1 .. ri_bs.N
          /\ ri_bs'.nbody_state \in 1 .. ri_bs'.N) =>
          ri_bs'.states[ri_bs'.nbody_state].length =
              ri_bs.states[ri_bs.nbody_state].length]_vars

\* C25: in any sequence of reb_integrator_bs_part2 and
\* reb_integrator_bs_reset calls part2 never reads or writes a state or
\* buffer that has been freed: after a reset the integrator keeps no
\* reference (states, nbody_state) to freed memory, and the next part2
\* creates a fresh N-body state
NoReferenceToFreedState ==
    /\ r.fault # "freed"
    /\ ri_bs.states_ptr # "freed"
    /\ ~NbodyDangling(ri_bs)

\* without a reset after the first part2 no freed state is referred to
NoReferenceToFreedStateBeforeReset ==
    [][(ri_bs.states_ptr # "freed" /\ ~Part2Reset) =>
          /\ r'.fault # "freed"
          /\ ri_bs'.states_ptr # "freed"
          /\ ~NbodyDangling(ri_bs')]_vars

----------------------------------------------------------------------------
(* The shells of MERCURANA, one drift step at a time.  In this state        *)
(* machine fn holds what the code does not store: drift is the record of    *)
(* the reb_integrator_mercurana_drift_step that has just run (its shell,    *)
(* the pairs enc its prediction found close, the particles its loop has     *)
(* advanced, the shell indices it has used for map, dcrit, shellN and       *)
(* shellN_active, and whether it has gone into the sub-shell), and          *)
(* processors is the list of the pre- and post-processors of shell 0        *)
(* invoked since the reset.                                                 *)

MaxDepth == 3     \* largest Nmaxshells a user sets

NoDrift ==
    [shell |-> -1, enc |-> {}, drifted |-> {}, indexed |-> {},
     recursed |-> FALSE]

\* what a user sets after the reset
ShellsSetups ==
    [Nmaxshells : 1 .. MaxDepth, whsplitting : BOOLEAN, safe_mode : BOOLEAN,
     N_active : {-1, 2}]

\* the shortcut of reb_mercurana_encounter_predict for shell 0 writes
\* map[1], shellN[1] and shellN_active[1] without asking whether shell 1
\* exists
PredictOverflows(rim, shell) ==
    shell = 0 /\ rim.whsplitting /\ shell + 1 >= rim.Nmaxshells

\* the shell indices reb_integrator_mercurana_drift_step and its prediction
\* use for map, dcrit, shellN and shellN_active
DriftIndexed(rim, shell) ==
    {shell} \cup (IF (shell = 0 /\ rim.whsplitting) \/ shell + 1 < rim.Nmaxshells
                  THEN {shell + 1} ELSE {})

\* the loop of reb_integrator_mercurana_drift_step: the particles of the
\* shell that are advanced, sim being the simulation after the prediction
DriftedAt(sim, shell) ==
    {p \in ShellMembers(sim.ri_mercurana, shell) :
        sim.ri_mercurana.inshell[p] = 1}

\* the shortcut of the prediction when shell 1 does not exist and the
\* program goes on: inshell is cleared, what is written through map[1],
\* shellN[1] and shellN_active[1] lands outside the arrays
PredictBeyondShells(sim, shell) ==
    [sim EXCEPT !.ri_mercurana.inshell =
        [p \in DOMAIN @ |->
            IF p \in ShellMembers(sim.ri_mercurana, shell) THEN 0 ELSE @[p]]]

\* the shell 0 processors a call invokes: pre is the pre-processor of
\* reb_integrator_mercurana_part2, post the post-processor of synchronize
Invoked(pre, post) ==
    (IF pre THEN <<"pre">> ELSE <<>>) \o (IF post THEN <<"post">> ELSE <<>>)

\* whether part1 calls synchronize with is_synchronized = 0
Part1Synchronizes(sim) ==
    /\ \/ sim.ri_mercurana.allocatedN < sim.N
       \/ sim.ri_mercurana.recalculate_dcrit_this_timestep
    /\ sim.ri_mercurana.is_synchronized = FALSE
    /\ SynchronizeRuns(sim)

ShellsSetup ==
    /\ exited = "no"
    /\ pending = <<>>
    /\ r.t = 0
    /\ r.ri_mercurana.allocatedN = 0
    /\ fn = NoFn
    /\ \E u \in ShellsSetups :
          r' = [r EXCEPT !.N_active = u.N_active,
                         !.ri_mercurana.Nmaxshells = u.Nmaxshells,
                         !.ri_mercurana.whsplitting = u.whsplitting,
                         !.ri_mercurana.n = 1,
                         !.ri_mercurana.safe_mode = u.safe_mode]
    /\ fn' = [op |-> "shells", drift |-> NoDrift, processors |-> <<>>]
    /\ UNCHANGED pending
    /\ UNCHANGED bsvars

ShellsPart1 ==
    /\ exited = "no"
    /\ pending = <<>>
    /\ fn.op = "shells"
    /\ r.t < MaxSteps
    /\ r' = reb_integrator_mercurana_part1(r)
    /\ pending' = <<Part2Call>>
    /\ fn' = [fn EXCEPT !.drift = NoDrift,
                        !.processors = @ \o Invoked(FALSE, Part1Synchronizes(r))]
    /\ UNCHANGED bsvars

ShellsPart2 ==
    /\ exited = "no"
    /\ pending # <<>>
    /\ Head(pending) = Part2Call
    /\ r' = Part2Entry(r)
    /\ pending' = Part2Calls(r) \o <<Part2Return>>
    /\ fn' = [fn EXCEPT !.drift = NoDrift,
                        !.processors =
                            @ \o Invoked(r.ri_mercurana.is_synchronized, FALSE)]
    /\ UNCHANGED bsvars

\* one call of reb_integrator_mercurana_drift_step, up to its recursion
ShellsDriftStep ==
    /\ exited = "no"
    /\ pending # <<>>
    /\ Head(pending).op = "drift"
    /\ ~PredictOverflows(r.ri_mercurana, Head(pending).shell)
    /\ \E enc \in SUBSET PairsOf(ShellMembers(r.ri_mercurana, Head(pending).shell)) :
          /\ r' = reb_integrator_mercurana_drift_step(r, Head(pending).shell, enc)
          /\ pending' = SubShellCalls(r', Head(pending).shell) \o Tail(pending)
          /\ fn' = [fn EXCEPT !.drift =
                       [shell |-> Head(pending).shell, enc |-> enc,
                        drifted |-> DriftedAt(r', Head(pending).shell),
                        indexed |-> DriftIndexed(r.ri_mercurana, Head(pending).shell),
                        recursed |-> SubShellCalls(r', Head(pending).shell) # <<>>]]
    /\ UNCHANGED bsvars

\* reb_integrator_mercurana_drift_step at shell 0 with whsplitting and
\* Nmaxshells = 1: the prediction writes through map[1], which is beyond the
\* array map, and to shellN[1] and shellN_active[1]; this is undefined: the
\* program crashes, or goes on with its arrays as they were
ShellsDriftStepBeyondShells ==
    /\ exited = "no"
    /\ pending # <<>>
    /\ Head(pending).op = "drift"
    /\ PredictOverflows(r.ri_mercurana, Head(pending).shell)
    /\ \E enc \in SUBSET PairsOf(ShellMembers(r.ri_mercurana, Head(pending).shell)) :
          LET shell == Head(pending).shell
              predicted == PredictBeyondShells(r, shell)
          IN /\ fn' = [fn EXCEPT !.drift =
                          [shell |-> shell, enc |-> enc,
                           drifted |-> DriftedAt(predicted, shell),
                           indexed |-> DriftIndexed(r.ri_mercurana, shell),
                           recursed |-> FALSE]]
             /\ \/ /\ exited' = "crash"
                   /\ UNCHANGED <<r, pending>>
                \/ /\ exited' = exited
                   /\ r' = predicted
                   /\ pending' = Tail(pending)
    /\ UNCHANGED <<ri_bs, call, ncalls>>

\* one call of reb_integrator_mercurana_interaction_step: velocities only
ShellsInteractionStep ==
    /\ exited = "no"
    /\ pending # <<>>
    /\ Head(pending).op = "interaction"
    /\ pending' = Tail(pending)
    /\ fn' = [fn EXCEPT !.drift = NoDrift]
    /\ UNCHANGED r
    /\ UNCHANGED bsvars

ShellsPart2Return ==
    /\ exited = "no"
    /\ pending # <<>>
    /\ Head(pending) = Part2Return
    /\ r' = Part2Exit(r)
    /\ pending' = Tail(pending)
    /\ fn' = [fn EXCEPT !.drift = NoDrift,
                        !.processors =
                            @ \o Invoked(FALSE,
                                    /\ r.ri_mercurana.safe_mode
                                    /\ SynchronizeRuns(
                                          [r EXCEPT !.ri_mercurana.is_synchronized = FALSE]))]
    /\ UNCHANGED bsvars

\* the user calls reb_integrator_mercurana_synchronize between two steps,
\* whatever is_synchronized is
ShellsSynchronize ==
    /\ exited = "no"
    /\ pending = <<>>
    /\ fn.op = "shells"
    /\ r' = reb_integrator_mercurana_synchronize(r)
    /\ fn' = [fn EXCEPT !.drift = NoDrift,
                        !.processors = @ \o Invoked(FALSE, SynchronizeRuns(r))]
    /\ UNCHANGED pending
    /\ UNCHANGED bsvars

\* the user asks for new critical radii between two steps
ShellsRecalculate ==
    /\ exited = "no"
    /\ pending = <<>>
    /\ fn.op = "shells"
    /\ r.t > 0
    /\ ~r.ri_mercurana.recalculate_dcrit_this_timestep
    /\ r' = [r EXCEPT !.ri_mercurana.recalculate_dcrit_this_timestep = TRUE]
    /\ fn' = [fn EXCEPT !.drift = NoDrift]
    /\ UNCHANGED pending
    /\ UNCHANGED bsvars

NextShells ==
    \/ ShellsSetup
    \/ ShellsRecalculate
    \/ ShellsPart1
    \/ ShellsPart2
    \/ ShellsDriftStep
    \/ ShellsDriftStepBeyondShells
    \/ ShellsInteractionStep
    \/ ShellsPart2Return
    \/ ShellsSynchronize

SpecShells == Init /\ [][NextShells]_vars

\* a drift step at shell s has just run
Drifted == fn.op = "shells" /\ fn.drift.shell >= 0

\* the particles in the first shellN_active[shell] slots of map[shell]
ActiveMembers(rim, shell) ==
    {rim.map[shell][i] : i \in 0 .. (rim.shellN_active[shell] - 1)}

\* the prediction of the drift step was the search for encounters, with a
\* sub-shell to put them in
Searched ==
    /\ Drifted
    /\ ~(fn.drift.shell = 0 /\ r.ri_mercurana.whsplitting)
    /\ fn.drift.shell + 1 < r.ri_mercurana.Nmaxshells

\* the particles of the shell that are in a pair predicted to come close in
\* which at least one particle is active
InEncounter ==
    LET rim == r.ri_mercurana
        s == fn.drift.shell
    IN {p \in ShellMembers(rim, s) :
           \E q \in ShellMembers(rim, s) \ {p} :
              /\ {p, q} \in fn.drift.enc
              /\ p \in ActiveMembers(rim, s) \/ q \in ActiveMembers(rim, s)}

\* C26: after reb_mercurana_encounter_predict at shell s (not the shortcut
\* of whsplitting, and s+1 < Nmaxshells) both particles of every pair of
\* shell s with at least one active particle and a predicted rmin2 below
\* the square of the sum of their dcrit are members of shell s+1 with
\* inshell = 0; a particle of shell s in no such pair has inshell = 1 and is
\* not in shell s+1
EncountersInSubShell ==
    Searched =>
        LET rim == r.ri_mercurana
            s == fn.drift.shell
        IN /\ \A p \in InEncounter :
                 /\ rim.inshell[p] = 0
                 /\ p \in ShellMembers(rim, s + 1)
           /\ \A p \in ShellMembers(rim, s) \ InEncounter :
                 /\ rim.inshell[p] = 1
                 /\ p \notin ShellMembers(rim, s + 1)

\* an active and a passive particle of shell 1 have gone into shell 2, the
\* other active particle stays, and the two passive particles that come
\* close to each other only are not moved
PassiveInSubShell ==
    /\ Searched
    /\ fn.drift.shell = 1
    /\ r.ri_mercurana.shellN_active[1] = 2
    /\ r.ri_mercurana.shellN[1] = 3
    /\ r.ri_mercurana.shellN_active[2] = 1
    /\ r.ri_mercurana.shellN[2] = 2
    /\ r.ri_mercurana.map[2][1] = 2

\* the prediction of the drift step has filled the sub-shell: by the
\* shortcut of whsplitting or by the search for encounters
SubShellFilled ==
    /\ Drifted
    /\ fn.drift.shell + 1 < r.ri_mercurana.Nmaxshells

\* C27: after every encounter prediction at shell s
\* map[s+1][0 .. shellN[s+1]) holds no particle index twice,
\* shellN_active[s+1] <= shellN[s+1] <= shellN[s], the first
\* shellN_active[s+1] entries of map[s+1] are active particles (from the
\* first shellN_active[s] slots of map[s]) and all later entries are
\* passive particles of shell s
SubShellOrdered ==
    SubShellFilled =>
        LET rim == r.ri_mercurana
            s == fn.drift.shell
        IN /\ Cardinality(ShellMembers(rim, s + 1)) = rim.shellN[s + 1]
           /\ rim.shellN_active[s + 1] <= rim.shellN[s + 1]
           /\ rim.shellN[s + 1] <= rim.shellN[s]
           /\ \A k \in 0 .. (rim.shellN[s + 1] - 1) :
                 /\ rim.map[s + 1][k] \in ShellMembers(rim, s)
                 /\ k < rim.shellN_active[s + 1] <=>
                        rim.map[s + 1][k] \in ActiveMembers(rim, s)

\* of two active particles and a passive one in shell 0 the second active
\* particle and the passive one have gone into shell 1
ActiveBeforePassive ==
    /\ SubShellFilled
    /\ fn.drift.shell = 0
    /\ ~r.ri_mercurana.whsplitting
    /\ r.ri_mercurana.shellN_active[0] = 2
    /\ r.ri_mercurana.shellN[1] = 2
    /\ r.ri_mercurana.shellN_active[1] = 1
    /\ r.ri_mercurana.map[1][0] = 1
    /\ r.ri_mercurana.map[1][1] = 2

\* the particle p of the shell of the drift step has been advanced at the
\* level of the shell, or is left to the recursion into its sub-shell, in
\* keeping with its inshell flag
AtOneLevel(p) ==
    LET rim == r.ri_mercurana
        s == fn.drift.shell
        below == fn.drift.recursed /\ p \in ShellMembers(rim, s + 1)
    IN IF rim.inshell[p] = 1
       THEN p \in fn.drift.drifted /\ ~below
       ELSE p \notin fn.drift.drifted /\ below

\* C28: in one reb_integrator_mercurana_drift_step at shell s every particle
\* of shell s is drifted at exactly one level: at shell s iff its inshell
\* flag is 1, otherwise only in the recursion into shell s+1; none is
\* drifted at both levels and none is left undrifted, for every
\* Nmaxshells >= 1 and both settings of whsplitting
DriftedAtOneLevel ==
    (Drifted /\ exited = "no") =>
        \A p \in ShellMembers(r.ri_mercurana, fn.drift.shell) : AtOneLevel(p)

\* the same where shell 1 exists or whsplitting is off
DriftedAtOneLevelWithSubShell ==
    (/\ Drifted
     /\ exited = "no"
     /\ r.ri_mercurana.Nmaxshells > 1 \/ ~r.ri_mercurana.whsplitting) =>
        \A p \in ShellMembers(r.ri_mercurana, fn.drift.shell) : AtOneLevel(p)

\* a drift step at shell 1 that advances one particle and leaves two to
\* shell 2
DriftSharedWithSubShell ==
    /\ Drifted
    /\ fn.drift.shell = 1
    /\ fn.drift.recursed
    /\ Cardinality(fn.drift.drifted) = 1
    /\ r.ri_mercurana.shellN[2] = 2

\* the shells below Nmaxshells
WithinShells(sim) == 0 .. (sim.ri_mercurana.Nmaxshells - 1)

\* C29: the recursion is bounded by Nmaxshells: drift and interaction steps
\* (those of the processors included) and the encounter prediction are
\* invoked with shell < Nmaxshells only, map, dcrit, shellN and
\* shellN_active are never read or written at an index >= Nmaxshells, for
\* every Nmaxshells >= 1 with whsplitting on or off, and
\* 1 <= Nmaxshellused <= Nmaxshells never decreases between resets
ShellsBounded ==
    [][fn'.op = "shells" =>
          /\ fn'.drift.shell >= 0 =>
                 /\ fn'.drift.shell \in WithinShells(r')
                 /\ fn'.drift.indexed \subseteq WithinShells(r')
          /\ \A i \in 1 .. Len(pending') : pending'[i].shell \in WithinShells(r')
          /\ r'.ri_mercurana.Nmaxshellused \in 1 .. r'.ri_mercurana.Nmaxshells
          /\ fn.op = "shells" =>
                 r'.ri_mercurana.Nmaxshellused >= r.ri_mercurana.Nmaxshellused]_vars

\* the same but for the indices of the arrays
ShellsBoundedButIndices ==
    [][fn'.op = "shells" =>
          /\ fn'.drift.shell >= 0 => fn'.drift.shell \in WithinShells(r')
          /\ \A i \in 1 .. Len(pending') : pending'[i].shell \in WithinShells(r')
          /\ r'.ri_mercurana.Nmaxshellused \in 1 .. r'.ri_mercurana.Nmaxshells
          /\ fn.op = "shells" =>
                 r'.ri_mercurana.Nmaxshellused >= r.ri_mercurana.Nmaxshellused]_vars

\* the indices are below Nmaxshells where shell 1 exists or whsplitting is off
IndicesBoundedWithSubShell ==
    (/\ Drifted
     /\ r.ri_mercurana.Nmaxshells > 1 \/ ~r.ri_mercurana.whsplitting) =>
        fn.drift.indexed \subseteq WithinShells(r)

\* the innermost shell has been reached: a drift step at shell Nmaxshells-1
\* with all shells in use
InnermostShellDrifted ==
    /\ Drifted
    /\ r.ri_mercurana.Nmaxshells = 3
    /\ fn.drift.shell = 2
    /\ r.ri_mercurana.Nmaxshellused = 3

\* pre, post, pre, post, ...
Alternating(h) ==
    \A i \in 1 .. Len(h) : h[i] = IF i % 2 = 1 THEN "pre" ELSE "post"

\* no call of the integrator is running
BetweenCalls == pending = <<>>

\* C30: over any sequence of calls of reb_integrator_mercurana_part1, part2
\* and synchronize after a reset the pre- and post-processors of shell 0 are
\* invoked in turn, a pre-processor first; between the calls
\* is_synchronized = 0 exactly when a pre-processor has run without its
\* post-processor; synchronize does nothing when is_synchronized = 1; and
\* with safe_mode = 1 is_synchronized = 1 after every part2
ProcessorsAlternate ==
    [][(fn.op = "shells" /\ fn'.op = "shells") =>
          /\ Alternating(fn'.processors)
          /\ BetweenCalls' =>
                 (~r'.ri_mercurana.is_synchronized <=> Len(fn'.processors) % 2 = 1)
          /\ (BetweenCalls /\ BetweenCalls' /\ r.ri_mercurana.is_synchronized) =>
                 /\ fn'.processors = fn.processors
                 /\ r'.synced_on = r.synced_on
                 /\ r'.ri_mercurana.is_synchronized
          /\ (pending = <<Part2Return>> /\ r.ri_mercurana.safe_mode) =>
                 r'.ri_mercurana.is_synchronized]_vars

\* without safe_mode: a step, a synchronize, and a second step with its own
\* pre-processor
PreAfterSynchronize ==
    /\ fn.op = "shells"
    /\ BetweenCalls
    /\ ~r.ri_mercurana.safe_mode
    /\ fn.processors = <<"pre", "post", "pre">>
    /\ ~r.ri_mercurana.is_synchronized

====
